---- MODULE Spec2Model ----
(***************************************************************************)
(* Model of the helmi service broker: the catalog (pkg/catalog), the       *)
(* release lifecycle (pkg/release), the chart-engine adapter (pkg/helm)    *)
(* and the OSBAPI surface (pkg/broker).                                    *)
(*                                                                         *)
(* Specifications:                                                         *)
(*   Spec        broker handlers run against the chart engine (sequential) *)
(*   SpecCatalog the catalog refresher interleaved with one request        *)
(*   SpecHealth  Health.IsTimedOut / LastOperation mapping over all inputs *)
(*   SpecStatus  Status.IsAvailable over all inputs                        *)
(*   SpecValues  ChartValues / ExtractMetadata over all inputs             *)
(***************************************************************************)
EXTENDS Integers, Sequences, FiniteSets, TLC

VARIABLES
    helm,      \* chart engine: release name -> release or NoRelease
    catalog,   \* Spec: the ServiceMap held by Catalog.services
    src,       \* the catalog source: the sequence of service files
    now,       \* wall clock, in minutes
    last,      \* observation of the last broker call
    heap,      \* SpecCatalog: map objects, object id -> ServiceMap
    active,    \* SpecCatalog: the object Catalog.services points to
    rf,        \* SpecCatalog: the refresher goroutine
    rq,        \* SpecCatalog: the request in flight
    call,      \* pure specifications: the function and its arguments
    ret        \* pure specifications: its result

vars == <<helm, catalog, src, now, last, heap, active, rf, rq, call, ret>>
\* What the broker specification leaves alone.
others == <<src, heap, active, rf, rq, call, ret>>

(***************************************************************************)
(* Bounds of the model.                                                    *)
(***************************************************************************)
MaxTime == 60
TickStep == 30
MaxNodes == 2
MaxObjs == 3

Times == {t \in 0..MaxTime : t % TickStep = 0}

(***************************************************************************)
(* Strings are sequences of one-character strings, so that prefixes,       *)
(* case folding and truncation are computed.                               *)
(***************************************************************************)
Range(f) == {f[x] : x \in DOMAIN f}

EmptyMap == [x \in {} |-> x]

Nil == [nil |-> TRUE]

(***************************************************************************)
(* Decoded YAML values (interface{}): a string, another scalar, a          *)
(* map[string]interface{} ("smap") or a map[interface{}]interface{}        *)
(* ("imap", what yaml.v2 decodes a nested mapping into).                   *)
(***************************************************************************)
Str(s) == [k |-> "str", s |-> s, m |-> EmptyMap]
Num(s) == [k |-> "num", s |-> s, m |-> EmptyMap]
SMap(f) == [k |-> "smap", s |-> "", m |-> f]
IMap(f) == [k |-> "imap", s |-> "", m |-> f]

metadataKey == "__metadata"
metadataServiceIdKey == "helmiServiceId"
metadataPlanIdKey == "helmiPlanId"
metadataIngressDomain == "helmiSvcDomain"

\* toStringMap: string keys, nested map[interface{}]interface{} converted
\* recursively; every other value (a nested smap included) kept as it is.
RECURSIVE toStringMap(_)
toStringMap(m) ==
    [key \in DOMAIN m |->
        IF m[key].k = "imap" THEN SMap(toStringMap(m[key].m)) ELSE m[key]]

\* mergeMaps(maps...): a fresh result, then every map of the list merged into
\* it from left to right; mergeInto is one round of the outer loop. Two
\* conflicting values are merged recursively when both are
\* map[string]interface{}, and overwritten by the right one otherwise.
RECURSIVE mergeMaps(_)
RECURSIVE mergeInto(_, _)
mergeIntoShallow(result, m) ==
    [key \in DOMAIN result \cup DOMAIN m |->
        IF key \notin DOMAIN m THEN result[key] ELSE m[key]]

mergeInto(result, m) ==
    [key \in DOMAIN result \cup DOMAIN m |->
        IF key \notin DOMAIN m THEN result[key]
        ELSE IF key \in DOMAIN result
                /\ m[key].k = "smap" /\ result[key].k = "smap"
             THEN SMap(mergeMaps(<<result[key].m, m[key].m>>))
             ELSE m[key]]

mergeMaps(maps) ==
    IF maps = <<>> THEN EmptyMap
    ELSE mergeInto(mergeMaps(SubSeq(maps, 1, Len(maps) - 1)), maps[Len(maps)])

\* yaml.Marshal followed by yaml.Unmarshal into map[string]interface{}: what
\* the chart engine hands back for the values it was given. The top level is
\* string-keyed, every nested mapping comes back as an imap.
RECURSIVE yamlNested(_)
yamlNested(v) ==
    IF v.k \in {"smap", "imap"}
    THEN IMap([key \in DOMAIN v.m |-> yamlNested(v.m[key])])
    ELSE v

yamlRoundTrip(m) == [key \in DOMAIN m |-> yamlNested(m[key])]

(***************************************************************************)
(* Catalog entities. A template is kept as what it renders to: the decoded *)
(* document, and whether rendering needs the request parameters (and then  *)
(* fails on parameters it cannot use).                                     *)
(***************************************************************************)
NoError == "nil"

\* ExtractMetadata(helmValues), with env the value of INGRESS_DOMAIN.
metadataMapOf(helmValues) ==
    IF metadataKey \notin DOMAIN helmValues THEN Nil
    ELSE IF helmValues[metadataKey].k = "smap" THEN helmValues[metadataKey]
    ELSE IF helmValues[metadataKey].k = "imap"
         THEN SMap(toStringMap(helmValues[metadataKey].m))
         ELSE Nil

hasString(m, key) == key \in DOMAIN m /\ m[key].k = "str"

stringAt(m, key) == IF hasString(m, key) THEN m[key].s ELSE ""

NoMetadata == [ServiceId |-> "", PlanId |-> "", IngressDomain |-> ""]

\* ExtractMetadata as it would be without the map[interface{}]interface{} case
\* that yaml.v2 makes necessary.
ExtractMetadataStringMapOnly(helmValues, env) ==
    IF metadataKey \in DOMAIN helmValues
       /\ helmValues[metadataKey].k = "smap"
       /\ hasString(helmValues[metadataKey].m, metadataServiceIdKey)
       /\ hasString(helmValues[metadataKey].m, metadataPlanIdKey)
    THEN [err |-> NoError,
          md |-> [ServiceId |->
                      stringAt(helmValues[metadataKey].m, metadataServiceIdKey),
                  PlanId |->
                      stringAt(helmValues[metadataKey].m, metadataPlanIdKey),
                  IngressDomain |->
                      IF stringAt(helmValues[metadataKey].m,
                                  metadataIngressDomain) = ""
                      THEN env
                      ELSE stringAt(helmValues[metadataKey].m,
                                    metadataIngressDomain)]]
    ELSE [err |-> "failed to fetch helmi metadata from helm values",
          md |-> NoMetadata]

ExtractMetadata(helmValues, env) ==
    LET mm == metadataMapOf(helmValues) IN
    IF mm = Nil
    THEN [err |-> "failed to fetch helmi metadata from helm values",
          md |-> NoMetadata]
    ELSE IF ~(hasString(mm.m, metadataServiceIdKey)
              /\ hasString(mm.m, metadataPlanIdKey))
    THEN [err |-> "incomplete helmi metadata in helm values", md |-> NoMetadata]
    ELSE [err |-> NoError,
          md |-> [ServiceId |-> stringAt(mm.m, metadataServiceIdKey),
                  PlanId |-> stringAt(mm.m, metadataPlanIdKey),
                  IngressDomain |->
                      IF stringAt(mm.m, metadataIngressDomain) = ""
                      THEN env
                      ELSE stringAt(mm.m, metadataIngressDomain)]]

\* The metadata block ChartValues merges last.
metadataBlock(serviceId, planId, ingressDomain) ==
    (metadataKey :> SMap(
        (metadataServiceIdKey :> Str(serviceId))
        @@ (metadataPlanIdKey :> Str(planId))
        @@ (metadataIngressDomain :> Str(ingressDomain))))

ChartValuesMetadataFirst(serviceId, rendered, planId, planChartValues, ingressDomain) ==
    mergeMaps(<<metadataBlock(serviceId, planId, ingressDomain),
                toStringMap(rendered), toStringMap(planChartValues)>>)

\* Service.ChartValues once the values template has rendered and decoded:
\* rendered is the chart-values mapping of the rendered document.
ChartValues(serviceId, rendered, planId, planChartValues, ingressDomain) ==
    mergeMaps(<<toStringMap(rendered), toStringMap(planChartValues),
                metadataBlock(serviceId, planId, ingressDomain)>>)

(***************************************************************************)
(* Chart-engine adapter (pkg/helm) and cluster view (pkg/kubectl).         *)
(***************************************************************************)
ServiceTypes == {"ClusterIP", "NodePort", "LoadBalancer"}

\* Status.IsAvailable: the loop counts the pending load balancers.
pendingServices(services) ==
    Cardinality({n \in DOMAIN services :
        services[n].Type = "LoadBalancer" /\ services[n].ExternalIP = ""})

IsAvailableIgnoringPending(s) ==
    ~s.IsFailed /\ s.IsDeployed /\ s.AvailableNodes >= s.DesiredNodes

IsAvailableIgnoringDeployed(s) ==
    /\ ~s.IsFailed
    /\ s.AvailableNodes >= s.DesiredNodes
    /\ pendingServices(s.Services) = 0

IsAvailableByNodesOnly(s) ==
    /\ s.AvailableNodes >= s.DesiredNodes
    /\ pendingServices(s.Services) = 0

IsAvailable(s) ==
    /\ ~s.IsFailed
    /\ s.IsDeployed
    /\ s.AvailableNodes >= s.DesiredNodes
    /\ pendingServices(s.Services) = 0

\* Outputs of `helm status` the model tells apart.
OutEmpty == ""
OutNotFound == "Error: getting deployed release: release not found"
OutNotFoundUpper == "Error: Release NOT FOUND"
OutTillerDown == "Error: could not find a ready tiller pod"
OutReport == "LAST DEPLOYED: ... STATUS: ..."
ExitError == "exit status 1"

\* strings.Contains(strings.ToLower(text), "not found")
containsNotFound(text) == text \in {OutNotFound, OutNotFoundUpper}

\* helm.Exists on the exit error and the combined output of `helm status`.
HelmExists(err, output) ==
    IF err = NoError /\ output # OutEmpty
    THEN [exists |-> TRUE, err |-> NoError]
    ELSE IF output # OutEmpty /\ containsNotFound(output)
    THEN [exists |-> FALSE, err |-> NoError]
    ELSE [exists |-> FALSE, err |-> err]

(***************************************************************************)
(* Release lifecycle (pkg/release): health and its timeout.                *)
(***************************************************************************)
DefaultTimeout == 30

\* The environment variable TIMEOUT: unset, or set to a text.
TimeoutUnset == [set |-> FALSE, text |-> ""]
TimeoutEnvs == {TimeoutUnset} \cup
    {[set |-> TRUE, text |-> x] : x \in {"15m", "1h", "soon"}}

\* time.ParseDuration, its error dropped: a text that does not parse gives 0.
parseDuration(text) ==
    CASE text = "30m" -> DefaultTimeout
      [] text = "15m" -> 15
      [] text = "1h" -> 60
      [] OTHER -> 0

timeoutDuration(env) == parseDuration(IF env.set THEN env.text ELSE "30m")

IsTimedOutIgnoringReady(h, t, env) ==
    t > h.deploymentTime + timeoutDuration(env)

IsTimedOutAtDeadline(h, t, env) ==
    t >= h.deploymentTime + timeoutDuration(env) /\ ~h.IsReady

\* Health.IsTimedOut at wall-clock time t.
IsTimedOut(h, t, env) ==
    t > h.deploymentTime + timeoutDuration(env) /\ ~h.IsReady

\* The state Broker.LastOperation reports for a Health.
LastOperationState(h, t, env) ==
    IF h.IsFailed \/ IsTimedOut(h, t, env) THEN "failed"
    ELSE IF h.IsReady THEN "succeeded"
    ELSE "in progress"

(***************************************************************************)
(* Release names (pkg/release getName).                                    *)
(***************************************************************************)
prefix == <<"h", "e", "l", "m", "i">>
maxLengthNoPrefix == 14

min(x, y) == IF x > y THEN y ELSE x

HasPrefixNever(value, p) == FALSE

HasPrefix(value, p) == Len(value) >= Len(p) /\ SubSeq(value, 1, Len(p)) = p

toLowerChar(c) ==
    CASE c = "A" -> "a"
      [] c = "B" -> "b"
      [] c = "H" -> "h"
      [] c = "E" -> "e"
      [] c = "L" -> "l"
      [] c = "M" -> "m"
      [] c = "I" -> "i"
      [] c = "N" -> "n"
      [] c = "O" -> "o"
      [] c = "T" -> "t"
      [] c = "F" -> "f"
      [] c = "U" -> "u"
      [] c = "D" -> "d"
      [] OTHER -> c

ToLower(value) == [i \in DOMAIN value |-> toLowerChar(value[i])]

\* strings.Replace(value, old, "", -1) for a one-character old.
Remove(value, old) == SelectSeq(value, LAMBDA c : c # old)

getNameKeepingUnderscores(value) ==
    IF HasPrefix(value, prefix) THEN value
    ELSE LET name == Remove(ToLower(value), "-")
         IN prefix \o SubSeq(name, 1, min(maxLengthNoPrefix, Len(name)))

getName(value) ==
    IF HasPrefix(value, prefix) THEN value
    ELSE LET name == Remove(Remove(ToLower(value), "-"), "_")
         IN prefix \o SubSeq(name, 1, min(maxLengthNoPrefix, Len(name)))

(***************************************************************************)
(* The catalog (pkg/catalog): services, plans, files, parsing, lookup.     *)
(***************************************************************************)
HealthUrlA == "http://a/health"
HealthUrlB == "tcp://b:6379"

PlanSmall == [Id |-> "p1", Chart |-> "", ChartVersion |-> "",
              ChartValues |-> ("size" :> Str("small")),
              UserCredentials |-> EmptyMap]
PlanLarge == [Id |-> "p2", Chart |-> "redis-ha", ChartVersion |-> "2.0",
              ChartValues |-> ("size" :> Str("large")),
              UserCredentials |-> ("tier" :> Str("large"))]
PlanBare == [Id |-> "p3", Chart |-> "", ChartVersion |-> "",
             ChartValues |-> EmptyMap, UserCredentials |-> EmptyMap]

ValuesTemplate(needsParams, chartValues) ==
    [needsParams |-> needsParams, chartValues |-> chartValues]
CredentialsTemplate(creds, urls) == [creds |-> creds, urls |-> urls]

\* A service with chart, two plans and two health checks.
ServiceRedis ==
    [Id |-> "s1", Chart |-> "redis", ChartVersion |-> "1.0",
     Plans |-> <<PlanSmall, PlanLarge>>,
     valuesTemplate |-> ValuesTemplate(TRUE, ("port" :> Num("6379"))),
     credentialsTemplate |->
         CredentialsTemplate(("uri" :> Str("redis://x")),
                             <<HealthUrlA, HealthUrlB>>)]
\* The same service id in a later edition of the source: one plan less.
ServiceRedisV2 ==
    [Id |-> "s1", Chart |-> "redis", ChartVersion |-> "1.1",
     Plans |-> <<PlanSmall>>,
     valuesTemplate |-> ValuesTemplate(TRUE, ("port" :> Num("6380"))),
     credentialsTemplate |->
         CredentialsTemplate(("uri" :> Str("redis://y")), <<HealthUrlA>>)]
\* A service that names no chart, neither itself nor in its plan.
ServiceBare ==
    [Id |-> "s2", Chart |-> "", ChartVersion |-> "",
     Plans |-> <<PlanBare>>,
     valuesTemplate |-> ValuesTemplate(FALSE, EmptyMap),
     credentialsTemplate |-> CredentialsTemplate(EmptyMap, <<>>)]

\* A service file: the number of parts the separator splits it into, whether
\* part 1 decodes, whether parts 2 and 3 compile, and the service it defines.
File(parts, yamlOk, valuesOk, credentialsOk, service) ==
    [parts |-> parts, yamlOk |-> yamlOk, valuesOk |-> valuesOk,
     credentialsOk |-> credentialsOk, service |-> service]
GoodFile(service) == File(3, TRUE, TRUE, TRUE, service)
TwoPartFile == File(2, TRUE, TRUE, TRUE, ServiceBare)
BadTemplateFile == File(3, TRUE, FALSE, TRUE, ServiceBare)

\* Editions of the catalog source; Unreadable is a source os.Stat fails on.
Unreadable == <<Nil>>
SourceA == <<GoodFile(ServiceRedis), GoodFile(ServiceBare)>>
SourceB == <<GoodFile(ServiceRedisV2)>>
SourceBroken == <<GoodFile(ServiceRedisV2), TwoPartFile>>
SourceBadTemplate == <<BadTemplateFile, GoodFile(ServiceRedis)>>
SourceEmpty == <<>>
Sources == {SourceA, SourceB, SourceBroken, SourceBadTemplate, SourceEmpty,
            Unreadable}

\* addServiceYaml(services, input, file): the error or the map with the
\* file's service stored under its Id.
addServiceYaml(services, file) ==
    IF file.parts # 3
    THEN [err |-> "must contain 3 yaml document parts", services |-> services]
    ELSE IF ~file.yamlOk
    THEN [err |-> "failed to parse service definition", services |-> services]
    ELSE IF ~file.valuesOk
    THEN [err |-> "failed to parse values template", services |-> services]
    ELSE IF ~file.credentialsOk
    THEN [err |-> "failed to parse credentials template",
          services |-> services]
    ELSE [err |-> NoError,
          services |-> [id \in DOMAIN services \cup {file.service.Id} |->
                           IF id = file.service.Id THEN file.service
                           ELSE services[id]]]

\* The walk of parseDir over the files in order, stopped by the first error.
RECURSIVE walk(_, _)
walk(services, files) ==
    IF files = <<>> THEN [err |-> NoError, services |-> services]
    ELSE LET r == addServiceYaml(services, Head(files))
         IN IF r.err # NoError THEN [err |-> r.err, services |-> EmptyMap]
            ELSE walk(r.services, Tail(files))

\* parseAny / parseDir: a fresh map, the walk, the check for no services.
parseAny(source) ==
    IF source = Unreadable
    THEN [err |-> "stat: no such file or directory", services |-> EmptyMap]
    ELSE LET r == walk(EmptyMap, source)
         IN IF r.err # NoError THEN r
            ELSE IF DOMAIN r.services = {}
            THEN [err |-> "no services found in catalog directory",
                  services |-> EmptyMap]
            ELSE r

\* Catalog.Service on a loaded ServiceMap: a copy of the service, or nil.
CatalogService(services, id) ==
    IF id \in DOMAIN services THEN services[id] ELSE Nil

\* strings.EqualFold on the plan ids of the model.
foldCase(s) ==
    CASE s = "P1" -> "p1"
      [] s = "P2" -> "p2"
      [] OTHER -> s
EqualFold(a, b) == foldCase(a) = foldCase(b)

\* Service.Plan: the first plan whose Id matches, or nil.
ServicePlan(s, id) ==
    LET hits == {i \in DOMAIN s.Plans : EqualFold(s.Plans[i].Id, id)}
    IN IF hits = {} THEN Nil
       ELSE s.Plans[CHOOSE i \in hits : \A j \in hits : i <= j]

\* getChart and getChartVersion: the plan's, else the service's, else an error.
getChartServiceFirst(service, plan) ==
    IF service.Chart # "" THEN [chart |-> service.Chart, err |-> NoError]
    ELSE IF plan.Chart # "" THEN [chart |-> plan.Chart, err |-> NoError]
    ELSE [chart |-> "", err |-> "no helm chart specified"]

getChart(service, plan) ==
    IF plan.Chart # "" THEN [chart |-> plan.Chart, err |-> NoError]
    ELSE IF service.Chart # "" THEN [chart |-> service.Chart, err |-> NoError]
    ELSE [chart |-> "", err |-> "no helm chart specified"]

getChartVersion(service, plan) ==
    IF plan.ChartVersion # ""
    THEN [version |-> plan.ChartVersion, err |-> NoError]
    ELSE IF service.ChartVersion # ""
    THEN [version |-> service.ChartVersion, err |-> NoError]
    ELSE [version |-> "", err |-> "no helm chart version specified"]

(***************************************************************************)
(* The chart engine behind the helm command line: what its commands do to  *)
(* the releases, as the adapter (pkg/helm) sees it.                        *)
(***************************************************************************)
NoRelease == Nil

InstanceIds == {<<"a", "b">>, <<"A", "-", "b">>}
Names == {getName(id) : id \in InstanceIds}

KubeService(type, externalIP) ==
    [Type |-> type, NodePorts |-> EmptyMap, ClusterPorts |-> EmptyMap,
     ExternalIP |-> externalIP, ClusterIP |-> "10.0.0.1"]

\* The workloads and services a chart creates, as first reported.
chartServices(chart) ==
    IF chart = "redis" THEN ("svc" :> KubeService("LoadBalancer", ""))
    ELSE ("svc" :> KubeService("ClusterIP", ""))
chartDesired(chart) == IF chart = "redis" THEN 1 ELSE 2

\* The services once every load balancer has its external address.
assigned(services) ==
    [n \in DOMAIN services |->
        IF services[n].Type = "LoadBalancer"
        THEN [services[n] EXCEPT !.ExternalIP = "3.3.3.3"]
        ELSE services[n]]

\* Outcomes of a command: the engine is down, or it answers; an install the
\* engine accepts can succeed, fail clean, or fail and leave a FAILED release.
Engines == {"down", "ok", "fail", "fail-kept"}

\* helm.Install: the error and the release afterwards.
HelmInstall(rel, engine, chart, version, values, namespace, acceptsIncomplete, t) ==
    LET fresh == [chart |-> chart, version |-> version,
                  Namespace |-> namespace, values |-> yamlRoundTrip(values),
                  IsFailed |-> FALSE, IsDeployed |-> TRUE,
                  DesiredNodes |-> chartDesired(chart),
                  AvailableNodes |->
                      IF acceptsIncomplete THEN 0 ELSE chartDesired(chart),
                  Services |->
                      IF acceptsIncomplete THEN chartServices(chart)
                      ELSE assigned(chartServices(chart)),
                  DeploymentTime |-> t]
    IN IF engine = "down" THEN [err |-> OutTillerDown, rel |-> rel]
       ELSE IF rel # NoRelease
       THEN [err |-> "Error: a release named x already exists", rel |-> rel]
       ELSE IF engine = "ok" THEN [err |-> NoError, rel |-> fresh]
       ELSE IF engine = "fail"
       THEN [err |-> "Error: failed to download chart", rel |-> rel]
       ELSE [err |-> "Error: release x failed",
             rel |-> [fresh EXCEPT !.IsFailed = TRUE, !.IsDeployed = FALSE,
                                   !.AvailableNodes = 0,
                                   !.Services = chartServices(chart)]]

\* helm.Delete: purge the release.
HelmDelete(rel, engine) ==
    IF engine = "down" THEN [err |-> OutTillerDown, rel |-> rel]
    ELSE IF rel = NoRelease THEN [err |-> OutNotFound, rel |-> rel]
    ELSE IF engine = "ok" THEN [err |-> NoError, rel |-> NoRelease]
    ELSE [err |-> "Error: deletion failed", rel |-> rel]

\* `helm status`: exit error and combined output.
helmStatusCommand(rel, engine) ==
    IF engine = "down" THEN [err |-> ExitError, out |-> OutTillerDown]
    ELSE IF rel = NoRelease THEN [err |-> ExitError, out |-> OutNotFound]
    ELSE [err |-> NoError, out |-> OutReport]

EmptyStatus(name) ==
    [Name |-> name, Namespace |-> "", IsFailed |-> FALSE, IsDeployed |-> FALSE,
     DesiredNodes |-> 0, AvailableNodes |-> 0, Services |-> EmptyMap,
     DeploymentTime |-> 0]

\* helm.GetStatus: the parsed report; every service of the report is fetched
\* from the cluster, and a failing fetch fails the call.
HelmGetStatus(rel, engine, kubeUp, name) ==
    LET c == helmStatusCommand(rel, engine) IN
    IF c.err # NoError THEN [err |-> c.err, status |-> EmptyStatus(name)]
    ELSE IF DOMAIN rel.Services # {} /\ ~kubeUp
    THEN [err |-> "services not reachable", status |-> EmptyStatus("")]
    ELSE [err |-> NoError,
          status |-> [Name |-> name, Namespace |-> rel.Namespace,
                      IsFailed |-> rel.IsFailed, IsDeployed |-> rel.IsDeployed,
                      DesiredNodes |-> rel.DesiredNodes,
                      AvailableNodes |-> rel.AvailableNodes,
                      Services |-> rel.Services,
                      DeploymentTime |-> rel.DeploymentTime]]

\* helm.GetValues: the values of the release, decoded.
HelmGetValues(rel, valuesUp) ==
    IF ~valuesUp \/ rel = NoRelease
    THEN [err |-> ExitError, values |-> EmptyMap]
    ELSE [err |-> NoError, values |-> rel.values]

\* helm.Exists on the engine.
HelmExistsOf(rel, engine) ==
    LET c == helmStatusCommand(rel, engine) IN HelmExists(c.err, c.out)

(***************************************************************************)
(* Release lifecycle (pkg/release). A nil service or plan that is          *)
(* dereferenced ends the call in a panic.                                  *)
(***************************************************************************)
ErrReleaseNotFound == "release not found"
ErrNotYetAvailable == "service not yet available"
Panic == "panic: nil pointer dereference"

\* Execution of the values template on the request parameters.
renderValues(template, params) ==
    IF template.needsParams /\ params = "unusable"
    THEN [err |-> "template: values: error calling required",
          chartValues |-> EmptyMap]
    ELSE [err |-> NoError, chartValues |-> template.chartValues]

\* release.Install on the loaded ServiceMap and the release of the name.
ReleaseInstall(services, rel, serviceId, planId, namespace, acceptsIncomplete, params, engine, t) ==
    LET service == CatalogService(services, serviceId)
        plan == ServicePlan(service, planId)
        chart == getChart(service, plan)
        version == getChartVersion(service, plan)
        rendered == renderValues(service.valuesTemplate, params)
        values == ChartValues(service.Id, rendered.chartValues, plan.Id,
                              plan.ChartValues, namespace.IngressDomain)
        h == HelmInstall(rel, engine, chart.chart,
                         IF version.err # NoError THEN "" ELSE version.version,
                         values, namespace.Name, acceptsIncomplete, t)
    IN IF service = Nil \/ plan = Nil
       THEN [panic |-> TRUE, err |-> Panic, rel |-> rel, called |-> FALSE]
       ELSE IF chart.err # NoError
       THEN [panic |-> FALSE, err |-> chart.err, rel |-> rel, called |-> FALSE]
       ELSE IF rendered.err # NoError
       THEN [panic |-> FALSE, err |-> rendered.err, rel |-> rel,
             called |-> FALSE]
       ELSE [panic |-> FALSE, err |-> h.err, rel |-> h.rel, called |-> TRUE]

\* release.Delete, after a failed delete: "not found" when the release is
\* absent, the delete error otherwise.
deleteErrorUnchecked(err, e) == err

deleteError(err, e) ==
    IF e.err = NoError /\ ~e.exists THEN ErrReleaseNotFound ELSE err

\* release.Delete.
ReleaseDelete(rel, engine) ==
    LET d == HelmDelete(rel, engine)
        e == HelmExistsOf(d.rel, engine)
    IN IF d.err # NoError
       THEN [err |-> deleteError(d.err, e), rel |-> d.rel, deleted |-> d.err,
             exists |-> e]
       ELSE [err |-> NoError, rel |-> d.rel, deleted |-> d.err, exists |-> Nil]

\* Faults a call can meet: at most one of the collaborators fails.
Faults == {"none", "engine", "services", "nodes", "values", "render"}
engineOf(fault) == IF fault = "engine" THEN "down" ELSE "ok"

\* Service.ReleaseSection: metadata, the credentials template, the merge with
\* the plan's credentials.
ReleaseSection(service, plan, values, env, fault) ==
    LET md == ExtractMetadata(values, env)
        t == service.credentialsTemplate
    IN IF md.err # NoError
       THEN [panic |-> FALSE, err |-> md.err, creds |-> Nil, urls |-> <<>>]
       ELSE IF fault = "render"
       THEN [panic |-> FALSE, err |-> "template: credentials: error",
             creds |-> Nil, urls |-> <<>>]
       ELSE IF plan = Nil
       THEN [panic |-> TRUE, err |-> Panic, creds |-> Nil, urls |-> <<>>]
       ELSE [panic |-> FALSE, err |-> NoError,
             creds |-> mergeMaps(<<toStringMap(t.creds),
                                   toStringMap(plan.UserCredentials)>>),
             urls |-> t.urls]

\* The result of a release call as the broker and the observer see it.
Outcome(err, status, exists, reads, out) ==
    [err |-> err, status |-> status, exists |-> exists, reads |-> reads,
     out |-> out]

\* release.GetCredentials.
GetCredentials(services, rel, serviceId, planId, name, fault, env) ==
    LET service == CatalogService(services, serviceId)
        plan == ServicePlan(service, planId)
        st == HelmGetStatus(rel, engineOf(fault), fault # "services", name)
        e == HelmExistsOf(rel, engineOf(fault))
        v == HelmGetValues(rel, fault # "values")
        rs == ReleaseSection(service, plan, v.values, env, fault)
    IN IF service = Nil THEN Outcome(Panic, "none", Nil, {}, Nil)
       ELSE IF st.err # NoError
       THEN IF e.err = NoError /\ ~e.exists
            THEN Outcome(ErrReleaseNotFound, "error", e, {}, Nil)
            ELSE Outcome(st.err, "error", e, {}, Nil)
       ELSE IF ~IsAvailable(st.status)
       THEN Outcome(ErrNotYetAvailable, "unavailable", Nil, {}, Nil)
       ELSE IF fault = "nodes"
       THEN Outcome("nodes not reachable", "available", Nil, {"nodes"}, Nil)
       ELSE IF v.err # NoError
       THEN Outcome(v.err, "available", Nil, {"nodes", "values"}, Nil)
       ELSE Outcome(rs.err, "available", Nil, {"nodes", "values"}, rs.creds)

\* The loop over the health checks: stops at the first failing probe.
RECURSIVE runChecks(_, _)
RECURSIVE runChecksToTheEnd(_, _)
runChecksToTheEnd(urls, probe) ==
    IF urls = <<>> THEN [failed |-> FALSE, probed |-> <<>>]
    ELSE LET r == runChecksToTheEnd(Tail(urls), probe)
         IN [failed |-> r.failed \/ ~probe[Head(urls)],
             probed |-> <<Head(urls)>> \o r.probed]

runChecks(urls, probe) ==
    IF urls = <<>> THEN [failed |-> FALSE, probed |-> <<>>]
    ELSE IF ~probe[Head(urls)] THEN [failed |-> TRUE, probed |-> <<Head(urls)>>]
    ELSE LET r == runChecks(Tail(urls), probe)
         IN [failed |-> r.failed, probed |-> <<Head(urls)>> \o r.probed]

HealthUrls == {HealthUrlA, HealthUrlB}
Probes == [HealthUrls -> BOOLEAN]

NoHealth == [IsFailed |-> FALSE, IsReady |-> FALSE, deploymentTime |-> 0]

\* release.GetHealth. out is the Health and the probes that ran.
GetHealth(services, rel, name, fault, env, probe) ==
    LET st == HelmGetStatus(rel, engineOf(fault), fault # "services", name)
        e == HelmExistsOf(rel, engineOf(fault))
        health == [IsFailed |-> st.status.IsFailed, IsReady |-> FALSE,
                   deploymentTime |-> st.status.DeploymentTime]
        v == HelmGetValues(rel, fault # "values")
        md == ExtractMetadata(v.values, env)
        service == CatalogService(services, md.md.ServiceId)
        plan == ServicePlan(service, md.md.PlanId)
        rs == ReleaseSection(service, plan, v.values, env, fault)
        c == runChecks(rs.urls, probe)
        none == [health |-> NoHealth, probed |-> <<>>]
    IN IF st.err # NoError
       THEN IF e.err = NoError /\ ~e.exists
            THEN Outcome(ErrReleaseNotFound, "error", e, {}, none)
            ELSE Outcome(st.err, "error", e, {}, none)
       ELSE IF ~IsAvailable(st.status)
       THEN Outcome(NoError, "unavailable", Nil, {},
                    [health |-> health, probed |-> <<>>])
       ELSE IF v.err # NoError
       THEN Outcome(v.err, "available", Nil, {"values"}, none)
       ELSE IF md.err # NoError
       THEN Outcome(md.err, "available", Nil, {"values"}, none)
       ELSE IF service = Nil
       THEN Outcome(Panic, "available", Nil, {"values", "catalog"}, none)
       ELSE IF fault = "nodes"
       THEN Outcome("nodes not reachable", "available", Nil,
                    {"values", "catalog", "nodes"}, none)
       ELSE IF rs.err # NoError
       THEN Outcome(rs.err, "available", Nil,
                    {"values", "catalog", "nodes"}, none)
       ELSE Outcome(NoError, "available", Nil, {"values", "catalog", "nodes"},
                    [health |-> [health EXCEPT !.IsReady = ~c.failed],
                     probed |-> c.probed])

(***************************************************************************)
(* OSBAPI surface (pkg/broker): one action per handler. last is what the   *)
(* call returned and what it observed on the way.                          *)
(***************************************************************************)
ErrRawParamsInvalid == "raw params invalid"
ErrInstanceAlreadyExists == "instance already exists"
ErrInstanceDoesNotExist == "instance does not exist"
ErrBindingDoesNotExist == "binding does not exist"
ErrPlanChangeNotSupported == "plan change not supported"

EnvIngressDomain == "env.example"
EnvHelmNamespace == "default"

\* Namespaces the lookup by platform context can come back with; the first is
\* the zero Namespace of a lookup that found nothing.
FoundNamespaces == {[Name |-> "", IngressDomain |-> ""],
                    [Name |-> "space1", IngressDomain |-> "apps.example"]}

\* namespaceFromContext: missing values filled from the environment.
namespaceFromContext(found) ==
    [Name |-> IF found.Name = "" THEN EnvHelmNamespace ELSE found.Name,
     IngressDomain |-> IF found.IngressDomain = "" THEN EnvIngressDomain
                       ELSE found.IngressDomain]

\* Service and plan ids a request can carry.
Requests == {[ServiceID |-> "s1", PlanID |-> "p1"],
             [ServiceID |-> "s1", PlanID |-> "P2"],
             [ServiceID |-> "s2", PlanID |-> "p3"],
             [ServiceID |-> "s1", PlanID |-> "p9"],
             [ServiceID |-> "s9", PlanID |-> "p1"]}
RawParameters == {"valid", "unusable", "malformed"}

Call(op, id, res, cmd, exists, status, reads, out) ==
    [op |-> op, id |-> id, res |-> res, cmd |-> cmd, exists |-> exists,
     status |-> status, reads |-> reads, out |-> out]
NoCall == Call("none", <<>>, "", "", Nil, "none", {}, Nil)

resultOf(err) == IF err = NoError THEN "ok" ELSE err

\* Broker.Provision, after a failed install: "already exists" when the release
\* is there, the install error otherwise.
provisionErrorUnchecked(err, e) == err

provisionError(err, e) ==
    IF e.err = NoError /\ e.exists THEN ErrInstanceAlreadyExists ELSE err

\* Broker.Provision.
ProvisionCall(services, rel, id, details, params, found, asyncAllowed, engine, t) ==
    LET r == ReleaseInstall(services, rel, details.ServiceID, details.PlanID,
                            namespaceFromContext(found), asyncAllowed, params,
                            engine, t)
        e == HelmExistsOf(r.rel, engine)
    IN IF params = "malformed"
       THEN [rel |-> rel,
             call |-> Call("Provision", id, ErrRawParamsInvalid, "", Nil,
                           "none", {}, [called |-> FALSE])]
       ELSE IF r.panic
       THEN [rel |-> rel,
             call |-> Call("Provision", id, Panic, "", Nil, "none",
                           {"catalog"}, [called |-> FALSE])]
       ELSE IF r.err # NoError
       THEN [rel |-> r.rel,
             call |-> Call("Provision", id,
                           provisionError(r.err, e),
                           r.err, e, "none", {"catalog"},
                           [called |-> r.called])]
       ELSE [rel |-> r.rel,
             call |-> Call("Provision", id, "ok", NoError, Nil, "none",
                           {"catalog"}, [called |-> r.called])]

Provision(id, details, params, found, asyncAllowed, engine) ==
    LET name == getName(id)
        p == ProvisionCall(catalog, helm[name], id, details, params, found,
                           asyncAllowed, engine, now)
    IN /\ helm' = [helm EXCEPT ![name] = p.rel]
       /\ last' = p.call
       /\ UNCHANGED <<catalog, now, others>>

\* Broker.Deprovision.
DeprovisionCall(rel, id, engine) ==
    LET d == ReleaseDelete(rel, engine)
    IN [rel |-> d.rel,
        call |-> Call("Deprovision", id,
                      IF d.err = ErrReleaseNotFound
                      THEN ErrInstanceDoesNotExist ELSE resultOf(d.err),
                      d.deleted, d.exists, "none", {}, Nil)]

Deprovision(id, engine) ==
    LET name == getName(id)
        d == DeprovisionCall(helm[name], id, engine)
    IN /\ helm' = [helm EXCEPT ![name] = d.rel]
       /\ last' = d.call
       /\ UNCHANGED <<catalog, now, others>>

\* Broker.Bind on an error of GetCredentials.
bindErrorUnmapped(err) == resultOf(err)

bindError(err) ==
    IF err = ErrReleaseNotFound THEN ErrInstanceDoesNotExist ELSE resultOf(err)

\* Broker.Bind.
BindCall(services, rel, id, details, fault) ==
    LET c == GetCredentials(services, rel, details.ServiceID, details.PlanID,
                            getName(id), fault, EnvIngressDomain)
    IN Call("Bind", id, bindError(c.err),
            "", c.exists, c.status, c.reads,
            IF c.err = NoError THEN c.out ELSE Nil)

Bind(id, details, fault) ==
    /\ last' = BindCall(catalog, helm[getName(id)], id, details, fault)
    /\ UNCHANGED <<helm, catalog, now, others>>

\* Broker.Unbind.
UnbindCall(rel, id, engine) ==
    LET e == HelmExistsOf(rel, engine)
    IN Call("Unbind", id,
            IF e.err # NoError THEN e.err
            ELSE IF ~e.exists THEN ErrBindingDoesNotExist
            ELSE "ok",
            "", e, "none", {}, Nil)

UnbindPurging(id, engine) ==
    /\ last' = UnbindCall(helm[getName(id)], id, engine)
    /\ helm' = [helm EXCEPT ![getName(id)] = NoRelease]
    /\ UNCHANGED <<catalog, now, others>>

Unbind(id, engine) ==
    /\ last' = UnbindCall(helm[getName(id)], id, engine)
    /\ UNCHANGED <<helm, catalog, now, others>>

\* Broker.LastOperation.
LastOperationCall(services, rel, id, fault, probe, t) ==
    LET h == GetHealth(services, rel, getName(id), fault, EnvIngressDomain,
                       probe)
    IN Call("LastOperation", id,
            IF h.err = ErrReleaseNotFound THEN ErrInstanceDoesNotExist
            ELSE resultOf(h.err),
            "", h.exists, h.status, h.reads,
            [state |-> IF h.err = NoError
                       THEN LastOperationState(h.out.health, t, TimeoutUnset)
                       ELSE "",
             health |-> h.out.health, probed |-> h.out.probed])

LastOperation(id, fault, probe) ==
    /\ last' = LastOperationCall(catalog, helm[getName(id)], id, fault, probe,
                                 now)
    /\ UNCHANGED <<helm, catalog, now, others>>

\* Broker.Update.
Update(id) ==
    /\ last' = Call("Update", id, ErrPlanChangeNotSupported, "", Nil, "none",
                    {}, Nil)
    /\ UNCHANGED <<helm, catalog, now, others>>

\* Broker.Services: one load of the catalog, one document per service.
serviceDocuments(services) ==
    {[ID |-> services[id].Id,
      Plans |-> {services[id].Plans[i].Id : i \in DOMAIN services[id].Plans}]
     : id \in DOMAIN services}

ServicesCall(services) ==
    Call("Services", <<>>, "ok", "", Nil, "none", {"catalog"},
         serviceDocuments(services))

Services ==
    /\ last' = ServicesCall(catalog)
    /\ UNCHANGED <<helm, catalog, now, others>>

(***************************************************************************)
(* The surroundings: the cluster brings a release up or fails it, the      *)
(* clock advances, the refresher re-parses the source (one whole tick).    *)
(***************************************************************************)
EngineProgress(name) ==
    /\ helm[name] # NoRelease
    /\ ~helm[name].IsFailed
    /\ \/ /\ helm[name].AvailableNodes < helm[name].DesiredNodes
          /\ helm' = [helm EXCEPT ![name].AvailableNodes =
                                      helm[name].DesiredNodes]
       \/ /\ assigned(helm[name].Services) # helm[name].Services
          /\ helm' = [helm EXCEPT ![name].Services =
                                      assigned(helm[name].Services)]
    /\ last' = NoCall
    /\ UNCHANGED <<catalog, now, others>>

EngineFail(name) ==
    /\ helm[name] # NoRelease
    /\ ~helm[name].IsFailed
    /\ helm' = [helm EXCEPT ![name].IsFailed = TRUE,
                            ![name].IsDeployed = FALSE]
    /\ last' = NoCall
    /\ UNCHANGED <<catalog, now, others>>

Tick ==
    /\ now + TickStep <= MaxTime
    /\ now' = now + TickStep
    /\ last' = NoCall
    /\ UNCHANGED <<helm, catalog, others>>

\* One iteration of the refresh goroutine on the source as it is then.
Refresh(source) ==
    LET r == parseAny(source)
    IN /\ catalog' = IF r.err # NoError THEN catalog ELSE r.services
       /\ last' = NoCall
       /\ UNCHANGED <<helm, now, others>>

Idle == [idle |-> TRUE]

Init ==
    /\ helm = [n \in Names |-> NoRelease]
    /\ catalog = parseAny(SourceA).services
    /\ now = 0
    /\ last = NoCall
    /\ src = Idle /\ heap = Idle /\ active = Idle /\ rf = Idle /\ rq = Idle
    /\ call = Idle /\ ret = Idle

\* The inputs of a call. Combinations that take the same path through the
\* handler are listed once: the namespace and the async flag only matter to
\* an install the engine accepts, and the engine only matters once the
\* request has passed the catalog.
ZeroNamespace == [Name |-> "", IngressDomain |-> ""]

ProvisionInputs ==
    {i \in [details : Requests, params : RawParameters,
            found : FoundNamespaces, asyncAllowed : BOOLEAN, engine : Engines] :
        LET plain == i.found = ZeroNamespace /\ ~i.asyncAllowed
            misses == i.details.ServiceID = "s9" \/ i.details.PlanID = "p9"
        IN /\ i.params = "malformed" =>
                 plain /\ i.engine = "ok" /\ i.details.PlanID = "p1"
                       /\ i.details.ServiceID = "s1"
           /\ misses => plain /\ i.engine = "ok" /\ i.params = "valid"
           /\ i.details.ServiceID = "s2" \/ i.params = "unusable" =>
                 plain /\ i.engine \in {"ok", "down"}
           /\ i.engine \in {"down", "fail"} => plain}

BindInputs ==
    {i \in [details : Requests, fault : Faults] :
        i.details.ServiceID = "s9" => i.fault = "none"}

AllPass == [u \in HealthUrls |-> TRUE]

LastOperationInputs ==
    {i \in [fault : Faults, probe : Probes] :
        i.fault # "none" => i.probe = AllPass}

Next ==
    \/ \E id \in InstanceIds, i \in ProvisionInputs :
          Provision(id, i.details, i.params, i.found, i.asyncAllowed, i.engine)
    \/ \E id \in InstanceIds, engine \in Engines : Deprovision(id, engine)
    \/ \E id \in InstanceIds, i \in BindInputs : Bind(id, i.details, i.fault)
    \/ \E id \in InstanceIds, engine \in {"ok", "down"} : Unbind(id, engine)
    \/ \E id \in InstanceIds, i \in LastOperationInputs :
          LastOperation(id, i.fault, i.probe)
    \/ \E id \in InstanceIds : Update(id)
    \/ Services
    \/ \E name \in Names : EngineProgress(name)
    \/ \E name \in Names : EngineFail(name)
    \/ Tick
    \/ \E source \in Sources : Refresh(source)

Spec == Init /\ [][Next]_vars

(***************************************************************************)
(* Properties of the broker handlers, checked under Spec.                  *)
(***************************************************************************)
Found == [exists |-> TRUE, err |-> NoError]
NotFound == [exists |-> FALSE, err |-> NoError]

\* The release a call was about. Calls that are not installs or deletes leave
\* the engine alone and every other step clears last, so in a state whose
\* last is such a call this is the release the call saw.
releaseOf(c) == helm[getName(c.id)]

\* A release is available, in the words of the availability rule.
availableRelease(rel) ==
    /\ rel # NoRelease
    /\ ~rel.IsFailed
    /\ rel.IsDeployed
    /\ rel.AvailableNodes >= rel.DesiredNodes
    /\ \A n \in DOMAIN rel.Services :
          rel.Services[n].Type = "LoadBalancer" =>
              rel.Services[n].ExternalIP # ""

\* C1: whenever release.Install fails and Exists then reports (true, nil),
\* Provision returns "instance already exists" instead of the install error,
\* and a release that was there before the call is left as it was.
C1_ProvisionAlreadyExists ==
    [][(last'.op = "Provision" /\ last'.cmd \notin {"", NoError}
            /\ last'.exists = Found)
       => /\ last'.res = ErrInstanceAlreadyExists
          /\ (helm[getName(last'.id)] # NoRelease => helm' = helm)]_vars

\* C1 witness: Provision answered "already exists" for a healthy release,
\* which the failed install cannot have left behind.
C1_Witness ==
    /\ last.op = "Provision"
    /\ last.res = ErrInstanceAlreadyExists
    /\ releaseOf(last) # NoRelease
    /\ ~releaseOf(last).IsFailed

\* C2: a Deprovision whose delete fails while Exists reports (false, nil)
\* returns "instance does not exist"; in particular the Deprovision that
\* directly follows a successful Deprovision of the same id does, whenever
\* the engine answers its existence check.
C2_SecondDeprovisionNotFound ==
    [][/\ (last'.op = "Deprovision" /\ last'.cmd # NoError
              /\ last'.exists = NotFound)
          => last'.res = ErrInstanceDoesNotExist
       /\ (last.op = "Deprovision" /\ last.res = "ok"
              /\ last'.op = "Deprovision" /\ last'.id = last.id
              /\ last'.exists # Nil /\ last'.exists.err = NoError)
          => last'.res = ErrInstanceDoesNotExist]_vars

\* C2 witness: a Deprovision found the release gone.
C2_Witness ==
    /\ last.op = "Deprovision"
    /\ last.cmd # NoError
    /\ last.exists = NotFound
    /\ last.res = ErrInstanceDoesNotExist
    /\ releaseOf(last) = NoRelease

C5_AbsentReleaseErrors ==
    /\ (last.op \in {"Bind", "LastOperation"} /\ last.status = "error"
           /\ last.exists = NotFound)
       => last.res = ErrInstanceDoesNotExist
    /\ (last.op = "Unbind" /\ last.exists = NotFound)
       => last.res = ErrBindingDoesNotExist
    /\ (last.op \in {"Bind", "LastOperation", "Unbind"}
           /\ releaseOf(last) = NoRelease
           /\ last.exists # Nil /\ last.exists.err = NoError)
       => /\ last.exists = NotFound
          /\ last.res = IF last.op = "Unbind" THEN ErrBindingDoesNotExist
                        ELSE ErrInstanceDoesNotExist

\* C5 witness: Bind on an instance id that has no release.
C5_Witness ==
    /\ last.op = "Bind"
    /\ releaseOf(last) = NoRelease
    /\ last.status = "error"
    /\ last.exists = NotFound
    /\ last.res = ErrInstanceDoesNotExist

\* C16: a failing health probe is never returned as an error: for an
\* available release one of whose probes fails, LastOperation succeeds with
\* IsReady = false and reports "in progress" while now <= deploymentTime +
\* TIMEOUT and "failed" on every call made after that.
C16_FailingProbeNotAnError ==
    [][(/\ last'.op = "LastOperation"
        /\ availableRelease(helm[getName(last'.id)])
        /\ last'.out # Nil
        /\ last'.out.probed # <<>>)
       => \A i \in LastOperationInputs :
             (/\ ~i.probe[last'.out.probed[Len(last'.out.probed)]]
              /\ LastOperation(last'.id, i.fault, i.probe))
             => /\ last'.res = "ok"
                /\ ~last'.out.health.IsReady
                /\ ~last'.out.health.IsFailed
                /\ last'.out.state =
                      IF now <= helm[getName(last'.id)].DeploymentTime
                                   + DefaultTimeout
                      THEN "in progress" ELSE "failed"]_vars

\* C16 witness: LastOperation on an available release whose probe fails,
\* called after the timeout: no error, not ready, "failed".
C16_Witness ==
    /\ last.op = "LastOperation"
    /\ availableRelease(releaseOf(last))
    /\ last.res = "ok"
    /\ last.out.probed # <<>>
    /\ ~last.out.health.IsReady
    /\ ~last.out.health.IsFailed
    /\ now > releaseOf(last).DeploymentTime + DefaultTimeout
    /\ last.out.state = "failed"

\* The health checks the catalog declares for the service of a release.
declaredChecks(rel) ==
    catalog[rel.values[metadataKey].m[metadataServiceIdKey].s]
        .credentialsTemplate.urls

\* C18: GetHealth returns IsReady = true iff the status is available and
\* every declared health check is probed successfully (none declared: true);
\* the probes run in declaration order and stop at the first failure; for a
\* status that is not available it returns IsFailed of the status, IsReady =
\* false and the deployment time, without rendering the release section or
\* probing.
C18_ReadyIffAvailableAndProbed ==
    [][(last'.op = "LastOperation" /\ last'.res = "ok")
       => LET rel == helm[getName(last'.id)]
              h == last'.out.health
              ran == last'.out.probed
          IN /\ h.IsReady => availableRelease(rel)
             /\ ~availableRelease(rel)
                => /\ h = [IsFailed |-> rel.IsFailed, IsReady |-> FALSE,
                           deploymentTime |-> rel.DeploymentTime]
                   /\ ran = <<>>
                   /\ last'.reads = {}
             /\ availableRelease(rel)
                => \A i \in LastOperationInputs :
                      LastOperation(last'.id, i.fault, i.probe)
                      => LET urls == declaredChecks(rel)
                             bad == {k \in DOMAIN urls : ~i.probe[urls[k]]}
                             n == IF bad = {} THEN Len(urls)
                                  ELSE CHOOSE k \in bad :
                                          \A j \in bad : k <= j
                         IN /\ h.IsReady <=> bad = {}
                            /\ ran = SubSeq(urls, 1, n)]_vars

\* C18 witness: two health checks are declared, the first probe fails, the
\* second is not run and the release is not ready.
C18_Witness ==
    /\ last.op = "LastOperation"
    /\ last.res = "ok"
    /\ availableRelease(releaseOf(last))
    /\ Len(declaredChecks(releaseOf(last))) = 2
    /\ last.out.probed = <<declaredChecks(releaseOf(last))[1]>>
    /\ ~last.out.health.IsReady

(***************************************************************************)
(* SpecHealth: the LastOperation mapping applied to every Health, time and *)
(* setting of TIMEOUT.                                                     *)
(***************************************************************************)
mainIdle ==
    /\ helm = Idle /\ catalog = Idle /\ now = Idle /\ last = Idle
    /\ src = Idle /\ heap = Idle /\ active = Idle /\ rf = Idle /\ rq = Idle

notPure == <<helm, catalog, now, last, src, heap, active, rf, rq>>

Healths == [IsFailed : BOOLEAN, IsReady : BOOLEAN, deploymentTime : Times]

InitHealth ==
    /\ mainIdle
    /\ call \in [fn : {"LastOperation"}, health : Healths, now : Times,
                 env : TimeoutEnvs]
    /\ ret = Idle

ApplyLastOperation ==
    /\ call.fn = "LastOperation"
    /\ ret = Idle
    /\ ret' = [state |-> LastOperationState(call.health, call.now, call.env),
               timedOut |-> IsTimedOut(call.health, call.now, call.env)]
    /\ UNCHANGED <<call, notPure>>

NextHealth == ApplyLastOperation

SpecHealth == InitHealth /\ [][NextHealth]_vars

\* C4: LastOperation reports "failed" iff IsFailed or timed out, where timed
\* out means now > deploymentTime + TIMEOUT and not IsReady; otherwise
\* "succeeded" iff IsReady; otherwise "in progress". A ready, not failed
\* Health is "succeeded" however old the deployment.
C4_LastOperationMapping ==
    ret # Idle =>
        LET h == call.health
            late == call.now > h.deploymentTime + timeoutDuration(call.env)
            failed == h.IsFailed \/ (late /\ ~h.IsReady)
        IN /\ ret.state \in {"failed", "succeeded", "in progress"}
           /\ ret.state = "failed" <=> failed
           /\ ret.state = "succeeded" <=> ~failed /\ h.IsReady
           /\ ret.state = "in progress" <=> ~failed /\ ~h.IsReady
           /\ ret.timedOut <=> (late /\ ~h.IsReady)
           /\ (h.IsReady /\ ~h.IsFailed) => ret.state = "succeeded"

\* C4 witness: a ready Health deployed longer ago than the timeout.
C4_Witness ==
    /\ ret # Idle
    /\ call.health.IsReady /\ ~call.health.IsFailed
    /\ call.now > call.health.deploymentTime + timeoutDuration(call.env)
    /\ ret.state = "succeeded"

(***************************************************************************)
(* SpecStatus: Status.IsAvailable applied to every status.                 *)
(***************************************************************************)
StatusServiceNames == {"web", "db"}
ExternalIPs == {"", "3.3.3.3"}

StatusServices ==
    {[n \in {m \in StatusServiceNames : f[m] # Nil} |-> f[n]] :
        f \in [StatusServiceNames ->
                 {Nil} \cup {KubeService(ty, ip) :
                                ty \in ServiceTypes, ip \in ExternalIPs}]}

Statuses ==
    {[Name |-> "helmiab", Namespace |-> "default", IsFailed |-> f,
      IsDeployed |-> d, DesiredNodes |-> dn, AvailableNodes |-> an,
      Services |-> s, DeploymentTime |-> 0] :
        f \in BOOLEAN, d \in BOOLEAN, dn \in 0..MaxNodes, an \in 0..MaxNodes,
        s \in StatusServices}

InitStatus ==
    /\ mainIdle
    /\ call \in [fn : {"IsAvailable"}, status : Statuses]
    /\ ret = Idle

ApplyIsAvailable ==
    /\ call.fn = "IsAvailable"
    /\ ret = Idle
    /\ ret' = [available |-> IsAvailable(call.status),
               pending |-> pendingServices(call.status.Services)]
    /\ UNCHANGED <<call, notPure>>

NextStatus == ApplyIsAvailable

SpecStatus == InitStatus /\ [][NextStatus]_vars

\* C8: IsAvailable is true iff not IsFailed and IsDeployed and
\* AvailableNodes >= DesiredNodes and no LoadBalancer service has an empty
\* ExternalIP; so IsAvailable implies that no load balancer is pending.
C8_AvailabilityRule ==
    ret # Idle =>
        LET s == call.status
        IN /\ ret.available <=>
                 /\ ~s.IsFailed
                 /\ s.IsDeployed
                 /\ s.AvailableNodes >= s.DesiredNodes
                 /\ ~\E n \in DOMAIN s.Services :
                        /\ s.Services[n].Type = "LoadBalancer"
                        /\ s.Services[n].ExternalIP = ""
           /\ ret.available => ret.pending = 0

\* C8 witness: an available status with a load balancer that has its address.
C8_Witness ==
    /\ ret # Idle
    /\ ret.available
    /\ call.status.DesiredNodes > 0
    /\ \E n \in DOMAIN call.status.Services :
          /\ call.status.Services[n].Type = "LoadBalancer"
          /\ call.status.Services[n].ExternalIP # ""

(***************************************************************************)
(* SpecValues: ChartValues on every rendered document and plan overlay,    *)
(* then ExtractMetadata on the result, directly or as the chart engine     *)
(* hands it back; and ExtractMetadata on arbitrary values.                 *)
(***************************************************************************)
MetadataKeys ==
    {metadataServiceIdKey, metadataPlanIdKey, metadataIngressDomain}

\* The maps over some of the keys, each key taking one of the values.
MapsOver(keys, values) ==
    {[key \in {x \in keys : f[x] # Nil} |-> f[key]] :
        f \in [keys -> {Nil} \cup values]}

\* What a service author can put where the broker writes its metadata.
ForeignMetadata ==
    {Str("oops")} \cup
    {IMap(m) : m \in MapsOver(MetadataKeys, {Str("evil"), IMap(EmptyMap)})}

RenderedDocuments ==
    {[key \in {x \in {metadataKey, "foo"} : f[x] # Nil} |-> f[key]] :
        f \in [{metadataKey, "foo"} ->
                 {Nil, Str("bar"), IMap(("x" :> Str("y")))}
                 \cup ForeignMetadata]}

PlanOverlays ==
    {EmptyMap,
     ("foo" :> IMap(("z" :> Str("w")))),
     (metadataKey :> Str("oops")),
     (metadataKey :> IMap((metadataIngressDomain :> Str("evil")))),
     (metadataKey :> IMap((metadataServiceIdKey :> IMap(EmptyMap))
                          @@ (metadataPlanIdKey :> Str("evil")))
        @@ ("foo" :> Str("plan")))}

Identities == {[serviceId |-> "s1", planId |-> "p1"],
               [serviceId |-> "s2", planId |-> ""]}
Domains == {"", "apps.example"}
EnvDomains == {"", "env.example"}

\* Values as read back from a release, well-formed or not.
StoredMetadata ==
    MapsOver(MetadataKeys, {Str("s1"), Str(""), Num("7")})

StoredValues ==
    {("foo" :> Str("bar")), (metadataKey :> Str("oops")),
     (metadataKey :> Num("7"))}
    \cup {(metadataKey :> IMap(m)) : m \in StoredMetadata}
    \cup {(metadataKey :> SMap(m)) @@ ("foo" :> Str("bar")) :
             m \in StoredMetadata}

InitValues ==
    /\ mainIdle
    /\ \/ call \in [fn : {"ChartValues"}, rendered : RenderedDocuments,
                    overlay : PlanOverlays, ids : Identities, domain : Domains,
                    env : EnvDomains, viaEngine : BOOLEAN]
       \/ call \in [fn : {"ExtractMetadata"}, values : StoredValues,
                    env : EnvDomains]
    /\ ret = [stage |-> "called"]

ApplyChartValues ==
    /\ call.fn = "ChartValues"
    /\ ret.stage = "called"
    /\ ret' = [stage |-> "values",
               values |-> ChartValues(call.ids.serviceId, call.rendered,
                                      call.ids.planId, call.overlay,
                                      call.domain)]
    /\ UNCHANGED <<call, notPure>>

\* ExtractMetadata on what ChartValues returned, or on what the chart engine
\* hands back for it.
ApplyExtractMetadata ==
    /\ call.fn = "ChartValues"
    /\ ret.stage = "values"
    /\ ret' = [stage |-> "extracted", values |-> ret.values,
               md |-> ExtractMetadata(IF call.viaEngine
                                      THEN yamlRoundTrip(ret.values)
                                      ELSE ret.values,
                                      call.env)]
    /\ UNCHANGED <<call, notPure>>

ApplyExtractStored ==
    /\ call.fn = "ExtractMetadata"
    /\ ret.stage = "called"
    /\ ret' = [stage |-> "read", md |-> ExtractMetadata(call.values, call.env)]
    /\ UNCHANGED <<call, notPure>>

NextValues == ApplyChartValues \/ ApplyExtractMetadata \/ ApplyExtractStored

SpecValues == InitValues /\ [][NextValues]_vars

\* C9: the map ChartValues returns has the top-level key __metadata whose
\* helmiServiceId, helmiPlanId and helmiSvcDomain are the service id, plan id
\* and namespace ingress domain of the call, whatever the rendered values and
\* the plan overlay define.
C9_MetadataInjected ==
    ret.stage \in {"values", "extracted"} =>
        /\ metadataKey \in DOMAIN ret.values
        /\ ret.values[metadataKey].k = "smap"
        /\ MetadataKeys \subseteq DOMAIN ret.values[metadataKey].m
        /\ ret.values[metadataKey].m[metadataServiceIdKey]
              = Str(call.ids.serviceId)
        /\ ret.values[metadataKey].m[metadataPlanIdKey] = Str(call.ids.planId)
        /\ ret.values[metadataKey].m[metadataIngressDomain] = Str(call.domain)

\* C9 witness: the rendered values and the overlay both define the metadata.
C9_Witness ==
    /\ ret.stage = "values"
    /\ metadataKey \in DOMAIN call.rendered
    /\ call.rendered[metadataKey].k = "imap"
    /\ metadataServiceIdKey \in DOMAIN call.rendered[metadataKey].m
    /\ metadataKey \in DOMAIN call.overlay
    /\ call.overlay[metadataKey].k = "imap"
    /\ ret.values[metadataKey].m[metadataServiceIdKey]
          = Str(call.ids.serviceId)

\* The values carry usable metadata, in the words of C10.
usableMetadata(values) ==
    /\ metadataKey \in DOMAIN values
    /\ values[metadataKey].k \in {"smap", "imap"}
    /\ \A key \in {metadataServiceIdKey, metadataPlanIdKey} :
          /\ key \in DOMAIN values[metadataKey].m
          /\ values[metadataKey].m[key].k = "str"

\* C10: ExtractMetadata on the values of ChartValues gives back the service
\* id and the plan id, and the namespace ingress domain when that is not
\* empty, else INGRESS_DOMAIN; and it returns an error when __metadata is
\* missing, is no map, or lacks a string helmiServiceId or helmiPlanId.
C10_MetadataRoundTrip ==
    /\ ret.stage = "extracted" =>
          /\ ret.md.err = NoError
          /\ ret.md.md.ServiceId = call.ids.serviceId
          /\ ret.md.md.PlanId = call.ids.planId
          /\ ret.md.md.IngressDomain =
                IF call.domain # "" THEN call.domain ELSE call.env
    /\ ret.stage = "read" =>
          (ret.md.err # NoError <=> ~usableMetadata(call.values))

\* C10 witness: a round trip through the chart engine with an empty ingress
\* domain, answered from INGRESS_DOMAIN.
C10_Witness ==
    /\ ret.stage = "extracted"
    /\ call.viaEngine
    /\ call.domain = "" /\ call.env # ""
    /\ ret.md.err = NoError
    /\ ret.md.md.IngressDomain = call.env

(***************************************************************************)
(* SpecCatalog: the refresh goroutine step by step, one request beside it, *)
(* and the source being edited under both. The ServiceMaps live in a heap  *)
(* of objects; object 0 is the nil map.                                    *)
(***************************************************************************)
Objects == 1..MaxObjs

\* The objects something still refers to, and the heap without the others.
referenced(a, f, q) == {0, a, f.obj, q.obj}

collect(h, refs) == [o \in DOMAIN h |-> IF o \in refs THEN h[o] ELSE Nil]

\* make(map[string]Service) in parseDir: a map of its own.
newMapInPlace(activeObj, fresh) == activeObj

newMap(activeObj, fresh) == fresh

\* The refresh goroutine after parseAny: the parsed map is stored unless the
\* parse failed.
publishedUnchecked(err, activeObj, parsed) == parsed

published(err, activeObj, parsed) ==
    IF err # NoError THEN activeObj ELSE parsed

Sleeping(outcome) ==
    [pc |-> "sleep", obj |-> 0, files |-> <<>>, edition |-> <<>>,
     err |-> NoError, repoErr |-> NoError, outcome |-> outcome]

NoRequest ==
    [pc |-> "idle", kind |-> "", sid |-> "", pid |-> "", early |-> FALSE,
     loads |-> 0, obj |-> 0, seen |-> EmptyMap, service |-> Nil, plan |-> Nil,
     panic |-> FALSE, out |-> {}]

\* The requests: Provision returns early on malformed parameters,
\* LastOperation on a release that is not available or not to be read.
RequestInputs ==
    {[kind |-> "Services", sid |-> "", pid |-> "", early |-> FALSE]}
    \cup {i \in [kind : {"Provision", "Bind", "LastOperation"},
                 sid : {"s1", "s9"}, pid : {"p1", "p2"}, early : BOOLEAN] :
             i.early => i.kind # "Bind" /\ i.sid = "s1" /\ i.pid = "p1"}

InitCatalog ==
    /\ helm = Idle /\ catalog = Idle /\ now = Idle /\ last = Idle
    /\ call = Idle /\ ret = Idle
    /\ src \in {SourceA, SourceB}
    /\ active = 1
    /\ heap = [o \in 0..MaxObjs |->
                 IF o = 0 THEN EmptyMap
                 ELSE IF o = 1 THEN parseAny(src).services
                 ELSE Nil]
    /\ rf = Sleeping("none")
    /\ rq = NoRequest

notCatalog == <<helm, catalog, now, last, call, ret>>

\* The source changes on disk.
EditSource(source) ==
    /\ source # src
    /\ src' = source
    /\ UNCHANGED <<heap, active, rf, rq, notCatalog>>

\* time.Sleep returns.
RefreshWake ==
    /\ rf.pc = "sleep"
    /\ rf' = [Sleeping("none") EXCEPT !.pc = "update"]
    /\ UNCHANGED <<src, heap, active, rq, notCatalog>>

\* helm.RepoUpdate: a failure is logged and the refresh goes on.
RefreshRepoUpdateGivingUp(err) ==
    /\ rf.pc = "update"
    /\ rf' = IF err # NoError THEN Sleeping("kept")
             ELSE [rf EXCEPT !.pc = "parse", !.repoErr = err]
    /\ UNCHANGED <<src, heap, active, rq, notCatalog>>

RefreshRepoUpdate(err) ==
    /\ rf.pc = "update"
    /\ rf' = [rf EXCEPT !.pc = "parse", !.repoErr = err]
    /\ UNCHANGED <<src, heap, active, rq, notCatalog>>

\* parseAny: os.Stat, then parseDir makes its map and starts the walk.
ParseStart ==
    /\ rf.pc = "parse"
    /\ IF src = Unreadable
       THEN /\ rf' = [rf EXCEPT !.pc = "parsed", !.edition = src,
                                !.err = "stat: no such file or directory"]
            /\ heap' = heap
       ELSE \E fresh \in Objects :
               /\ fresh \notin referenced(active, rf, rq)
               /\ \A o \in Objects :
                     o \notin referenced(active, rf, rq) => fresh <= o
               /\ rf' = [rf EXCEPT !.pc = "walk",
                                   !.obj = newMap(active, fresh),
                                   !.files = src, !.edition = src]
               /\ heap' = [heap EXCEPT ![newMap(active, fresh)] = EmptyMap]
    /\ UNCHANGED <<src, active, rq, notCatalog>>

\* The walk reaches one file: addServiceYaml into the map, or the error that
\* ends the walk and leaves parseDir returning nil.
ParseFile ==
    /\ rf.pc = "walk"
    /\ rf.files # <<>>
    /\ LET r == addServiceYaml(heap[rf.obj], Head(rf.files))
       IN IF r.err # NoError
          THEN /\ rf' = [rf EXCEPT !.pc = "parsed", !.obj = 0,
                                   !.files = <<>>, !.err = r.err]
               /\ heap' = collect(heap, referenced(active, rf', rq))
          ELSE /\ rf' = [rf EXCEPT !.files = Tail(rf.files)]
               /\ heap' = [heap EXCEPT ![rf.obj] = r.services]
    /\ UNCHANGED <<src, active, rq, notCatalog>>

\* The walk is over: parseDir returns the map unless it is empty.
ParseEnd ==
    /\ rf.pc = "walk"
    /\ rf.files = <<>>
    /\ IF DOMAIN heap[rf.obj] = {}
       THEN /\ rf' = [rf EXCEPT !.pc = "parsed", !.obj = 0,
                        !.err = "no services found in catalog directory"]
            /\ heap' = collect(heap, referenced(active, rf', rq))
       ELSE /\ rf' = [rf EXCEPT !.pc = "parsed"]
            /\ heap' = heap
    /\ UNCHANGED <<src, active, rq, notCatalog>>

\* The refresh goroutine with the result of parseAny: log, or Store.
RefreshPublish ==
    /\ rf.pc = "parsed"
    /\ active' = published(rf.err, active, rf.obj)
    /\ rf' = Sleeping(IF rf.err # NoError THEN "kept" ELSE "stored")
    /\ heap' = collect(heap, referenced(active', rf', rq))
    /\ UNCHANGED <<src, rq, notCatalog>>

\* A request arrives.
RequestStart(i) ==
    /\ rq.pc \in {"idle", "done"}
    /\ rq' = [NoRequest EXCEPT !.pc = "start", !.kind = i.kind, !.sid = i.sid,
                               !.pid = i.pid, !.early = i.early]
    /\ UNCHANGED <<src, heap, active, rf, notCatalog>>

\* The handler returns before it needs the catalog.
RequestReturnEarly ==
    /\ rq.pc = "start"
    /\ rq.early
    /\ rq' = [rq EXCEPT !.pc = "done"]
    /\ UNCHANGED <<src, heap, active, rf, notCatalog>>

\* Catalog.Services: the atomic load.
RequestLoad ==
    /\ rq.pc = "start"
    /\ ~rq.early
    /\ rq' = [rq EXCEPT !.pc = "loaded", !.loads = rq.loads + 1,
                        !.obj = active, !.seen = heap[active]]
    /\ UNCHANGED <<src, heap, active, rf, notCatalog>>

\* Catalog.Service: the lookup in the loaded map, and a copy of what it holds.
RequestService ==
    /\ rq.pc = "loaded"
    /\ rq.kind # "Services"
    /\ rq' = [rq EXCEPT !.pc = "service", !.obj = 0,
                        !.service = CatalogService(heap[rq.obj], rq.sid)]
    /\ heap' = collect(heap, referenced(active, rf, rq'))
    /\ UNCHANGED <<src, active, rf, notCatalog>>

\* Service.Plan on the copy; on nil it dereferences nil.
RequestPlan ==
    /\ rq.pc = "service"
    /\ rq' = IF rq.service = Nil
             THEN [rq EXCEPT !.pc = "done", !.panic = TRUE]
             ELSE [rq EXCEPT !.pc = "done",
                             !.plan = ServicePlan(rq.service, rq.pid)]
    /\ UNCHANGED <<src, heap, active, rf, notCatalog>>

\* Broker.Services ranges over the loaded map.
RequestIterate ==
    /\ rq.pc = "loaded"
    /\ rq.kind = "Services"
    /\ rq' = [rq EXCEPT !.pc = "done", !.obj = 0,
                        !.out = serviceDocuments(heap[rq.obj])]
    /\ heap' = collect(heap, referenced(active, rf, rq'))
    /\ UNCHANGED <<src, active, rf, notCatalog>>

NextCatalog ==
    \/ \E source \in Sources : EditSource(source)
    \/ RefreshWake
    \/ \E err \in {NoError, ExitError} : RefreshRepoUpdate(err)
    \/ ParseStart
    \/ ParseFile
    \/ ParseEnd
    \/ RefreshPublish
    \/ \E i \in RequestInputs : RequestStart(i)
    \/ RequestReturnEarly
    \/ RequestLoad
    \/ RequestService
    \/ RequestPlan
    \/ RequestIterate

SpecCatalog == InitCatalog /\ [][NextCatalog]_vars

\* A source every file of which is a valid service file, and the services it
\* defines.
parses(source) ==
    /\ source # Unreadable
    /\ source # <<>>
    /\ \A i \in DOMAIN source :
          /\ source[i].parts = 3
          /\ source[i].yamlOk /\ source[i].valuesOk /\ source[i].credentialsOk

servicesOf(source) ==
    [id \in {source[i].service.Id : i \in DOMAIN source} |->
        source[CHOOSE i \in DOMAIN source :
                  /\ source[i].service.Id = id
                  /\ \A j \in DOMAIN source :
                        source[j].service.Id = id => j <= i].service]

\* C6: a refresh whose parse succeeds makes the newly parsed service map the
\* active snapshot; a refresh whose parse fails (a file invalid, the source
\* unreadable, no services) leaves the prior snapshot active and unchanged;
\* nothing else changes it, and it is never a mix of old and new services.
C6_RefreshAllOrNothing ==
    [][LET refresh == rf.pc = "parsed" /\ rf'.pc = "sleep"
       IN /\ (refresh /\ parses(rf.edition)) =>
                /\ active' = rf.obj
                /\ heap'[active'] = servicesOf(rf.edition)
          /\ (~refresh \/ ~parses(rf.edition)) =>
                /\ active' = active
                /\ heap'[active'] = heap[active]
          /\ \E source \in Sources :
                parses(source) /\ heap'[active'] = servicesOf(source)]_vars

\* C6 witness: a refresh that failed and kept a snapshot an earlier refresh
\* had stored.
C6_Witness ==
    /\ rf.outcome = "kept"
    /\ src \in {SourceBroken, SourceBadTemplate, SourceEmpty, Unreadable}
    /\ heap[active] = servicesOf(SourceB)
    /\ active # 1

\* The service and the plan of a finished request are those of the snapshot
\* it loaded.
sameSnapshot(q) ==
    (q.pc = "done" /\ q.loads > 0) =>
        IF q.kind = "Services" THEN q.out = serviceDocuments(q.seen)
        ELSE /\ q.service = CatalogService(q.seen, q.sid)
             /\ q.panic <=> q.service = Nil
             /\ ~q.panic => q.plan = ServicePlan(q.seen[q.sid], q.pid)

\* A step leaves every published map that is still referred to as it was.
neverMutated ==
    \A o \in Objects :
        (o \in {active, rq.obj} /\ o \in {active', rq'.obj}) =>
            heap'[o] = heap[o]

\* C7 as stated: under any interleaving with the refresher every request
\* loads the snapshot exactly once, service and plan come from that one
\* snapshot, and a published snapshot is never mutated.
C7_LoadsExactlyOnce ==
    [][/\ rq'.pc = "done" => rq'.loads = 1
       /\ sameSnapshot(rq')
       /\ neverMutated]_vars

\* C7: under any interleaving with the refresher a request loads the snapshot
\* at most once: exactly once when it reaches the service lookup, not at all
\* when it returns before (Provision on malformed parameters, LastOperation
\* on a release that is not available); service and plan come from that one
\* snapshot, and a published snapshot is never mutated.
C7_LoadsAtMostOnce ==
    [][/\ rq'.loads <= 1
       /\ rq'.pc = "done" => (rq'.loads = 1 <=> ~rq'.early)
       /\ rq'.early => rq'.kind \in {"Provision", "LastOperation"}
       /\ sameSnapshot(rq')
       /\ neverMutated]_vars

\* C7 witness: a request that finished with the plan of the snapshot it
\* loaded after the refresher had published another without that plan.
C7_Witness ==
    /\ rq.pc = "done"
    /\ rq.loads = 1
    /\ rq.plan = PlanLarge
    /\ heap[active] = servicesOf(SourceB)
    /\ rq.seen = servicesOf(SourceA)

(***************************************************************************)
(* SpecName: getName applied to instance ids, and to its own result.       *)
(***************************************************************************)
MaxPad == 16
MaxTail == 3

\* How an id can begin, what can follow, and the id of Test_GetName.
IdHeads ==
    {<<>>, prefix, <<"H", "E", "L", "M", "I">>, <<"H", "e", "l", "m", "i">>,
     <<"h", "e", "l", "m">>, <<"h", "e", "l", "-", "m", "i">>,
     <<"_", "h", "e", "l", "m", "i">>}

IdTails ==
    UNION {[1..n -> {"a", "B", "-", "_"}] : n \in 0..MaxTail}

LongTestName ==
    <<"t", "h", "i", "s", "_", "i", "s", "-", "a", "_", "t", "e", "s",
    "t", "_", "n", "a", "m", "e", "_", "w", "h", "i", "c", "h", "-", "i",
    "s", "_", "p", "r", "e", "t", "t", "y", "-", "l", "o", "n", "g">>

NameInputs ==
    {LongTestName}
    \cup {head \o [i \in 1..pad |-> "x"] \o tail :
             head \in IdHeads, pad \in 0..MaxPad, tail \in IdTails}

InitName ==
    /\ mainIdle
    /\ call \in [fn : {"getName"}, id : NameInputs]
    /\ ret = [stage |-> "called"]

ApplyGetName ==
    /\ call.fn = "getName"
    /\ ret.stage = "called"
    /\ ret' = [stage |-> "named", name |-> getName(call.id)]
    /\ UNCHANGED <<call, notPure>>

\* The name of an instance is derived again from the derived name.
ApplyGetNameAgain ==
    /\ call.fn = "getName"
    /\ ret.stage = "named"
    /\ ret' = [stage |-> "renamed", name |-> ret.name,
               again |-> getName(ret.name)]
    /\ UNCHANGED <<call, notPure>>

NextName == ApplyGetName \/ ApplyGetNameAgain

SpecName == InitName /\ [][NextName]_vars

\* An id lower-cased with every '-' and '_' removed, character by character.
RECURSIVE normalized(_)
normalized(x) ==
    IF x = <<>> THEN <<>>
    ELSE IF Head(x) \in {"-", "_"} THEN normalized(Tail(x))
    ELSE <<CASE Head(x) \in {"A", "B", "H", "E", "L", "M", "I"} ->
                  [A |-> "a", B |-> "b", H |-> "h", E |-> "e", L |-> "l",
                   M |-> "m", I |-> "i"][Head(x)]
             [] OTHER -> Head(x)>> \o normalized(Tail(x))

startsWithHelmi(x) ==
    Len(x) >= 5 /\ \A i \in 1..5 : x[i] = <<"h", "e", "l", "m", "i">>[i]

\* C11: getName(x) = x when x starts with 'helmi'; otherwise it is 'helmi'
\* followed by the first min(14, len(n)) characters of n, x lower-cased with
\* every '-' and '_' removed. The result always starts with 'helmi' and has
\* at most 19 characters when x does not start with 'helmi'; the long test
\* name gives 'helmithisisatestnam'.
C11_NameDerivation ==
    ret.stage \in {"named", "renamed"} =>
        LET x == call.id
            n == normalized(x)
            k == IF Len(n) < 14 THEN Len(n) ELSE 14
        IN /\ startsWithHelmi(x) => ret.name = x
           /\ ~startsWithHelmi(x) =>
                 /\ ret.name = <<"h", "e", "l", "m", "i">> \o [i \in 1..k |-> n[i]]
                 /\ Len(ret.name) <= 19
           /\ startsWithHelmi(ret.name)
           /\ x = LongTestName =>
                 ret.name = <<"h", "e", "l", "m", "i", "t", "h", "i", "s", "i",
                              "s", "a", "t", "e", "s", "t", "n", "a", "m">>

\* C11 witness: an id in capitals with separators, longer than 14 characters
\* once normalized, cut to 19.
C11_Witness ==
    /\ ret.stage = "named"
    /\ ~startsWithHelmi(call.id)
    /\ Len(call.id) > 5
    /\ \A i \in 1..5 : call.id[i] = <<"H", "E", "L", "M", "I">>[i]
    /\ \E i \in DOMAIN call.id : call.id[i] = "_"
    /\ Len(normalized(call.id)) > 14
    /\ Len(ret.name) = 19

\* C12: getName(getName(x)) = getName(x) for every instance id x, the empty
\* one and those shorter than 14 characters included.
C12_NameIdempotent ==
    ret.stage = "renamed" => ret.again = ret.name

\* C12 witness: the empty id, named 'helmi' both times.
C12_Witness ==
    /\ ret.stage = "renamed"
    /\ call.id = <<>>
    /\ ret.name = <<"h", "e", "l", "m", "i">>
    /\ ret.again = ret.name

(***************************************************************************)
(* SpecMerge: mergeMaps on decoded documents after toStringMap, as every   *)
(* caller passes them: two maps, and three maps one way and the other.     *)
(***************************************************************************)
MaxDepth == 2

\* The values a decoded document holds down to a depth: numbers, and
\* mappings as yaml.v2 decodes them.
RECURSIVE DecodedValues(_)
DecodedValues(depth) ==
    IF depth = 0 THEN {Num("1"), Num("2")}
    ELSE {Num("1"), Num("2")}
         \cup {IMap(m) : m \in MapsOver({"x"}, DecodedValues(depth - 1))}

MergeInputs ==
    {toStringMap(d) : d \in MapsOver({"k", "j"}, DecodedValues(MaxDepth))}

ShallowInputs ==
    {toStringMap(d) : d \in MapsOver({"k", "j"}, DecodedValues(1))}

InitMerge ==
    /\ mainIdle
    /\ \/ call \in [fn : {"mergeMaps"}, s : MergeInputs, p : MergeInputs]
       \/ call \in [fn : {"mergeMaps3"}, a : ShallowInputs, b : ShallowInputs,
                    c : ShallowInputs]
    /\ ret = Idle

ApplyMerge ==
    /\ call.fn = "mergeMaps"
    /\ ret = Idle
    /\ ret' = [merged |-> mergeMaps(<<call.s, call.p>>)]
    /\ UNCHANGED <<call, notPure>>

ApplyMergeThree ==
    /\ call.fn = "mergeMaps3"
    /\ ret = Idle
    /\ ret' = [left |-> mergeMaps(<<mergeMaps(<<call.a, call.b>>), call.c>>),
               right |-> mergeMaps(<<call.a, mergeMaps(<<call.b, call.c>>)>>),
               all |-> mergeMaps(<<call.a, call.b, call.c>>)]
    /\ UNCHANGED <<call, notPure>>

NextMerge == ApplyMerge \/ ApplyMergeThree

SpecMerge == InitMerge /\ [][NextMerge]_vars

isMap(v) == v.k \in {"smap", "imap"}

\* The right-biased deep merge, key by key.
RECURSIVE rightBiased(_, _)
rightBiased(s, p) ==
    [key \in DOMAIN s \cup DOMAIN p |->
        IF key \in DOMAIN s /\ key \in DOMAIN p /\ isMap(s[key])
           /\ isMap(p[key])
        THEN SMap(rightBiased(s[key].m, p[key].m))
        ELSE IF key \in DOMAIN p THEN p[key]
        ELSE s[key]]

\* C13: mergeMaps(s, p) holds, for every key, the merge of s[k] and p[k] when
\* both are maps, else p[k] when p has k (a map replaces a non-map, a non-map
\* replaces a map), else s[k]; and merging three maps with pairwise disjoint
\* keys gives the same whichever two are merged first.
C13_RightBiasedDeepMerge ==
    /\ (ret # Idle /\ call.fn = "mergeMaps") =>
          ret.merged = rightBiased(call.s, call.p)
    /\ (ret # Idle /\ call.fn = "mergeMaps3"
           /\ DOMAIN call.a \cap DOMAIN call.b = {}
           /\ DOMAIN call.a \cap DOMAIN call.c = {}
           /\ DOMAIN call.b \cap DOMAIN call.c = {})
       => ret.left = ret.right /\ ret.all = ret.left

\* C13 witness: both sides hold a map under k, the two differ two levels down,
\* and the result is neither side's map.
C13_Witness ==
    /\ ret # Idle
    /\ call.fn = "mergeMaps"
    /\ "k" \in DOMAIN call.s /\ "k" \in DOMAIN call.p
    /\ isMap(call.s["k"]) /\ isMap(call.p["k"])
    /\ ret.merged["k"] # call.p["k"]
    /\ "j" \in DOMAIN call.s /\ "j" \in DOMAIN call.p
    /\ isMap(call.s["j"]) /\ ~isMap(call.p["j"])
    /\ ret.merged["j"] = call.p["j"]

(***************************************************************************)
(* SpecServices: what the credentials template can ask about the services  *)
(* of a release (servicesVars): Port, IP and Address of a service by name. *)
(***************************************************************************)
\* strconv.Itoa for a port number.
RECURSIVE Itoa(_)
Itoa(n) ==
    IF n < 10
    THEN <<"0", "1", "2", "3", "4", "5", "6", "7", "8", "9">>[n + 1]
    ELSE Itoa(n \div 10)
         \o <<"0", "1", "2", "3", "4", "5", "6", "7", "8", "9">>[(n % 10) + 1]

\* mapPort: the node port of a NodePort service, the port itself for a
\* LoadBalancer, the cluster port of a ClusterIP service.
mapPortMappedForLoadBalancer(svc, port) ==
    CASE svc.Type \in {"NodePort", "LoadBalancer"}
            /\ port \in DOMAIN svc.NodePorts ->
                [port |-> svc.NodePorts[port], ok |-> TRUE]
      [] svc.Type = "ClusterIP" /\ port \in DOMAIN svc.ClusterPorts ->
                [port |-> svc.ClusterPorts[port], ok |-> TRUE]
      [] OTHER -> [port |-> 0, ok |-> FALSE]

mapPort(svc, port) ==
    CASE svc.Type = "NodePort" /\ port \in DOMAIN svc.NodePorts ->
                [port |-> svc.NodePorts[port], ok |-> TRUE]
      [] svc.Type = "LoadBalancer" /\ port \in DOMAIN svc.NodePorts ->
                [port |-> port, ok |-> TRUE]
      [] svc.Type = "ClusterIP" /\ port \in DOMAIN svc.ClusterPorts ->
                [port |-> svc.ClusterPorts[port], ok |-> TRUE]
      [] OTHER -> [port |-> 0, ok |-> FALSE]

\* servicesVars.Port
ServicesPort(services, serviceName, port) ==
    IF serviceName \in DOMAIN services
       /\ mapPort(services[serviceName], port).ok
    THEN Itoa(mapPort(services[serviceName], port).port)
    ELSE ""

\* extractAddress: DOMAIN when set, else the first external address of a
\* node, else the first internal one.
extractAddressNodeByNode(kubernetesNodes, domainEnv) ==
    IF domainEnv.set THEN domainEnv.text
    ELSE IF \E i \in DOMAIN kubernetesNodes :
               kubernetesNodes[i].ExternalIP # ""
               \/ kubernetesNodes[i].InternalIP # ""
    THEN LET node == kubernetesNodes[CHOOSE i \in DOMAIN kubernetesNodes :
                        /\ kubernetesNodes[i].ExternalIP # ""
                           \/ kubernetesNodes[i].InternalIP # ""
                        /\ \A j \in 1..(i - 1) :
                              /\ kubernetesNodes[j].ExternalIP = ""
                              /\ kubernetesNodes[j].InternalIP = ""]
         IN IF node.ExternalIP # "" THEN node.ExternalIP ELSE node.InternalIP
    ELSE ""

extractAddress(kubernetesNodes, domainEnv) ==
    IF domainEnv.set THEN domainEnv.text
    ELSE IF \E i \in DOMAIN kubernetesNodes :
               kubernetesNodes[i].ExternalIP # ""
    THEN kubernetesNodes[CHOOSE i \in DOMAIN kubernetesNodes :
            /\ kubernetesNodes[i].ExternalIP # ""
            /\ \A j \in 1..(i - 1) : kubernetesNodes[j].ExternalIP = ""
         ].ExternalIP
    ELSE IF \E i \in DOMAIN kubernetesNodes :
               kubernetesNodes[i].InternalIP # ""
    THEN kubernetesNodes[CHOOSE i \in DOMAIN kubernetesNodes :
            /\ kubernetesNodes[i].InternalIP # ""
            /\ \A j \in 1..(i - 1) : kubernetesNodes[j].InternalIP = ""
         ].InternalIP
    ELSE ""

\* servicesVars.IP
ServicesIP(services, kubernetesNodes, domainEnv, serviceName) ==
    IF serviceName \notin DOMAIN services THEN ""
    ELSE CASE services[serviceName].Type = "ClusterIP" ->
                 services[serviceName].ClusterIP
           [] services[serviceName].Type = "NodePort" ->
                 extractAddress(kubernetesNodes, domainEnv)
           [] services[serviceName].Type = "LoadBalancer" ->
                 services[serviceName].ExternalIP
           [] OTHER -> ""

\* servicesVars.Address
ServicesAddressUnchecked(services, kubernetesNodes, domainEnv, serviceName, port) ==
    ServicesIP(services, kubernetesNodes, domainEnv, serviceName) \o ":"
        \o ServicesPort(services, serviceName, port)

ServicesAddress(services, kubernetesNodes, domainEnv, serviceName, port) ==
    LET svcPort == ServicesPort(services, serviceName, port)
        svcIP == ServicesIP(services, kubernetesNodes, domainEnv, serviceName)
    IN IF svcPort # "" /\ svcIP # "" THEN svcIP \o ":" \o svcPort ELSE ""

\* The services of a status: none, or one named "svc" of any type (one of
\* them a type the broker does not know) with any port maps and addresses.
PortMaps(keys, values) == UNION {[d -> values] : d \in SUBSET keys}

ResolvedServices ==
    {EmptyMap}
    \cup {("svc" :> [Type |-> ty, NodePorts |-> np, ClusterPorts |-> cp,
                     ExternalIP |-> ext, ClusterIP |-> cl]) :
             ty \in ServiceTypes \cup {"ExternalName"},
             np \in PortMaps({8080, 9090}, {31008}),
             cp \in PortMaps({7070, 8080}, {7070}),
             ext \in {"", "3.3.3.3"}, cl \in {"", "10.0.70.70"}}

NodeLists ==
    UNION {[1..n -> [ExternalIP : {"", "2.2.2.2"},
                     InternalIP : {"", "1.1.1.1"}]] : n \in 0..MaxNodes}

DomainEnvs ==
    {[set |-> FALSE, text |-> ""], [set |-> TRUE, text |-> ""],
     [set |-> TRUE, text |-> "cluster.example"]}

InitServices ==
    /\ mainIdle
    /\ call \in [fn : {"Address"}, services : ResolvedServices,
                 nodes : NodeLists, domainEnv : DomainEnvs,
                 name : {"svc", "other"}, port : {7070, 8080, 9090}]
    /\ ret = Idle

ApplyAddress ==
    /\ call.fn = "Address"
    /\ ret = Idle
    /\ ret' = [port |-> ServicesPort(call.services, call.name, call.port),
               ip |-> ServicesIP(call.services, call.nodes, call.domainEnv,
                                 call.name),
               address |-> ServicesAddress(call.services, call.nodes,
                                           call.domainEnv, call.name,
                                           call.port)]
    /\ UNCHANGED <<call, notPure>>

NextServices == ApplyAddress

SpecServices == InitServices /\ [][NextServices]_vars

portText ==
    (7070 :> "7070") @@ (8080 :> "8080") @@ (9090 :> "9090")
    @@ (31008 :> "31008")

\* C14: Port(name, port) is ClusterPorts[port] for a ClusterIP service,
\* NodePorts[port] for a NodePort service, and port itself for a LoadBalancer
\* with port among its NodePorts; an unknown name, an unknown type or an
\* unmapped port gives the empty result.
C14_PortByServiceType ==
    ret # Idle =>
        LET known == call.name \in DOMAIN call.services
            svc == call.services[call.name]
        IN ret.port =
              IF ~known THEN ""
              ELSE IF svc.Type = "ClusterIP"
                      /\ call.port \in DOMAIN svc.ClusterPorts
              THEN portText[svc.ClusterPorts[call.port]]
              ELSE IF svc.Type = "NodePort"
                      /\ call.port \in DOMAIN svc.NodePorts
              THEN portText[svc.NodePorts[call.port]]
              ELSE IF svc.Type = "LoadBalancer"
                      /\ call.port \in DOMAIN svc.NodePorts
              THEN portText[call.port]
              ELSE ""

\* C14 witness: the load balancer of the test, asked for port 9090.
C14_Witness ==
    /\ ret # Idle
    /\ call.name \in DOMAIN call.services
    /\ call.services[call.name].Type = "LoadBalancer"
    /\ call.port = 9090
    /\ 9090 \in DOMAIN call.services[call.name].NodePorts
    /\ call.services[call.name].NodePorts[9090] = 31008
    /\ ret.port = "9090"

\* C15: Address(name, port) is IP(name) + ':' + Port(name, port) when both
\* are non-empty and empty otherwise; IP is the ClusterIP of a ClusterIP
\* service, the derived cluster address for a NodePort service and the
\* ExternalIP of a LoadBalancer; the three services of the test give
\* '10.0.70.70:7070', '2.2.2.2:31008' and '3.3.3.3:9090'.
C15_AddressOfService ==
    ret # Idle =>
        LET known == call.name \in DOMAIN call.services
            svc == call.services[call.name]
            testNodes == call.nodes # <<>> /\ ~call.domainEnv.set
                         /\ call.nodes[1].ExternalIP = "2.2.2.2"
        IN /\ ret.address = IF ret.ip # "" /\ ret.port # ""
                            THEN ret.ip \o ":" \o ret.port ELSE ""
           /\ ret.ip =
                 IF ~known THEN ""
                 ELSE IF svc.Type = "ClusterIP" THEN svc.ClusterIP
                 ELSE IF svc.Type = "NodePort"
                 THEN extractAddress(call.nodes, call.domainEnv)
                 ELSE IF svc.Type = "LoadBalancer" THEN svc.ExternalIP
                 ELSE ""
           /\ (known /\ svc.Type = "ClusterIP" /\ svc.ClusterIP = "10.0.70.70"
                  /\ call.port = 7070 /\ 7070 \in DOMAIN svc.ClusterPorts)
              => ret.address = "10.0.70.70:7070"
           /\ (known /\ svc.Type = "NodePort" /\ testNodes
                  /\ call.port = 8080 /\ 8080 \in DOMAIN svc.NodePorts)
              => ret.address = "2.2.2.2:31008"
           /\ (known /\ svc.Type = "LoadBalancer" /\ svc.ExternalIP = "3.3.3.3"
                  /\ call.port = 9090 /\ 9090 \in DOMAIN svc.NodePorts)
              => ret.address = "3.3.3.3:9090"

\* C15 witness: the node-port service of the test on a cluster whose first
\* node has the external address 2.2.2.2.
C15_Witness ==
    /\ ret # Idle
    /\ call.name \in DOMAIN call.services
    /\ call.services[call.name].Type = "NodePort"
    /\ call.port = 8080
    /\ Len(call.nodes) > 0
    /\ call.nodes[1].InternalIP = "1.1.1.1"
    /\ ret.address = "2.2.2.2:31008"

(***************************************************************************)
(* SpecSection: the second half of Service.ReleaseSection, from the        *)
(* rendered credentials document to the Release. The document is kept as   *)
(* its top-level YAML nodes: 'user-credentials', 'health-checks', and the  *)
(* names of the other keys.                                                *)
(***************************************************************************)
ErrYamlUnmarshal == "yaml: unmarshal errors"

Absent == [node |-> "absent", m |-> EmptyMap, items |-> <<>>]
NullNode == [node |-> "null", m |-> EmptyMap, items |-> <<>>]
ScalarNode == [node |-> "scalar", m |-> EmptyMap, items |-> <<>>]
MapNode(f) == [node |-> "map", m |-> f, items |-> <<>>]
SeqNode(items) == [node |-> "seq", m |-> EmptyMap, items |-> items]

\* yaml.Unmarshal into the section struct: a key that is missing or null
\* leaves its field nil, a mapping fills UserCredentials, a sequence fills
\* HealthCheckURLs, a node of another kind is an unmarshal error; keys the
\* struct does not name are ignored.
unmarshalSection(doc) ==
    IF doc.userCredentials.node \in {"seq", "scalar"}
       \/ doc.healthChecks.node \in {"map", "scalar"}
    THEN [err |-> ErrYamlUnmarshal, UserCredentials |-> EmptyMap,
          HealthCheckURLs |-> <<>>]
    ELSE [err |-> NoError, UserCredentials |-> doc.userCredentials.m,
          HealthCheckURLs |-> doc.healthChecks.items]

\* Service.ReleaseSection from the rendered document on.
sectionOf(doc, plan) ==
    LET section == unmarshalSection(doc)
    IN IF section.err # NoError
       THEN [err |-> section.err, release |-> Nil]
       ELSE [err |-> NoError,
             release |->
                [UserCredentials |->
                     mergeMaps(<<toStringMap(section.UserCredentials),
                                 toStringMap(plan.UserCredentials)>>),
                 HealthCheckURLs |-> section.HealthCheckURLs]]

RenderedCredentials ==
    {Absent, NullNode, ScalarNode, SeqNode(<<>>)}
    \cup {MapNode(m) :
            m \in MapsOver({"uri", "tier"},
                           {Str("redis://x"), IMap(("a" :> Str("b")))})}

RenderedHealthChecks ==
    {Absent, ScalarNode, MapNode(EmptyMap), SeqNode(<<>>),
     SeqNode(<<HealthUrlA>>), SeqNode(<<HealthUrlA, HealthUrlB>>)}

RenderedSections ==
    [userCredentials : RenderedCredentials,
     healthChecks : RenderedHealthChecks,
     others : {{}, {"some-wrong-name"}}]

InitSection ==
    /\ mainIdle
    /\ call \in [fn : {"ReleaseSection"}, document : RenderedSections,
                 plan : {PlanSmall, PlanLarge, PlanBare}]
    /\ ret = Idle

ApplyReleaseSection ==
    /\ call.fn = "ReleaseSection"
    /\ ret = Idle
    /\ ret' = sectionOf(call.document, call.plan)
    /\ UNCHANGED <<call, notPure>>

NextSection == ApplyReleaseSection

SpecSection == InitSection /\ [][NextSection]_vars

\* C17: ReleaseSection returns an error, and no credentials, whenever the
\* rendered document has no top-level 'user-credentials' map: when the key
\* holds a value that is not a map, and when the key is missing altogether.
C17_CredentialsRequired ==
    (ret # Idle /\ call.document.userCredentials.node # "map")
    => ret.err # NoError /\ ret.release = Nil

\* C17, the half the code has: a 'user-credentials' that is a list or a
\* scalar is an error and gives no credentials.
C17_NonMapRejected ==
    (ret # Idle /\ call.document.userCredentials.node \in {"seq", "scalar"})
    => ret.err # NoError /\ ret.release = Nil

\* C17 witness: the document of the test whose section is named differently;
\* the call returns the plan's credentials and no error.
C17_Witness ==
    /\ ret # Idle
    /\ call.document.userCredentials = Absent
    /\ call.document.others = {"some-wrong-name"}
    /\ call.plan = PlanLarge
    /\ ret.err = NoError
    /\ ret.release.UserCredentials = ("tier" :> Str("large"))

(***************************************************************************)
(* SpecExists: helm.Exists on the exit error and the combined output of    *)
(* `helm status`, the output as text. HelmExists above is the same         *)
(* function on the few outputs the broker model tells apart.               *)
(***************************************************************************)
notFoundText == <<"n", "o", "t", " ", "f", "o", "u", "n", "d">>

\* strings.Contains
Contains(text, substr) ==
    \E i \in 0..(Len(text) - Len(substr)) :
        SubSeq(text, i + 1, i + Len(substr)) = substr

mentionsNotFoundExactCase(text) == Contains(text, notFoundText)

\* strings.Contains(strings.ToLower(text), "not found")
mentionsNotFound(text) == Contains(ToLower(text), notFoundText)

\* helm.Exists
Exists(err, output) ==
    IF err = NoError /\ Len(output) > 0
    THEN [exists |-> TRUE, err |-> NoError]
    ELSE IF Len(output) > 0 /\ mentionsNotFound(output)
    THEN [exists |-> FALSE, err |-> NoError]
    ELSE [exists |-> FALSE, err |-> err]

\* What the status command can come back with: it ran and exited with zero,
\* ran and exited with non-zero, or could not be started; its output is put
\* together from a beginning, a middle and an end.
CommandErrors == {NoError, ExitError, "exec: helm: executable file not found"}

OutputHeads == {<<>>, <<"E", ":", " ">>, <<"n", "o", "t", " ">>}

NotFoundSpellings ==
    {notFoundText,
     <<"N", "O", "T", " ", "F", "O", "U", "N", "D">>,
     <<"N", "o", "t", " ", "F", "o", "u", "n", "d">>}

OutputMiddles ==
    NotFoundSpellings
    \cup {<<>>, <<"n", "o", "t", "f", "o", "u", "n", "d">>,
          <<"n", "o", "t", " ", " ", "f", "o", "u", "n", "d">>,
          <<"n", "o", "t", " ", "f", "o", "u", "n">>,
          <<"D", "E", "P", "L", "O", "Y", "E", "D">>}

OutputTails == {<<>>, <<"!">>, <<"f", "o", "u", "n", "d">>}

InitExists ==
    /\ mainIdle
    /\ call \in [fn : {"Exists"}, err : CommandErrors, head : OutputHeads,
                 middle : OutputMiddles, tail : OutputTails]
    /\ ret = Idle

ApplyExists ==
    /\ call.fn = "Exists"
    /\ ret = Idle
    /\ ret' = Exists(call.err, call.head \o call.middle \o call.tail)
    /\ UNCHANGED <<call, notPure>>

NextExists == ApplyExists

SpecExists == InitExists /\ [][NextExists]_vars

\* The output of the call is empty / names "not found" in some casing.
emptyOutput == call.head = <<>> /\ call.middle = <<>> /\ call.tail = <<>>

saysNotFound ==
    \/ call.middle \in NotFoundSpellings
    \/ /\ call.middle = <<>>
       /\ call.head = <<"n", "o", "t", " ">>
       /\ call.tail = <<"f", "o", "u", "n", "d">>

\* C19: as stated: a command without error and with empty output gives
\* false; an output containing "not found" in any casing gives (false, nil);
\* any other output gives (true, nil), whatever the exit status.
C19_ExistsAsStated ==
    ret # Idle =>
        /\ (call.err = NoError /\ emptyOutput) => ~ret.exists
        /\ saysNotFound => ret = [exists |-> FALSE, err |-> NoError]
        /\ (~emptyOutput /\ ~saysNotFound)
           => ret = [exists |-> TRUE, err |-> NoError]

\* C19, as the code has it: a command without error and with output gives
\* (true, nil) whatever the output says; otherwise an output containing
\* "not found" in any casing gives (false, nil); otherwise, an empty output
\* included, the result is false with the error of the command.
C19_ExistsClassification ==
    ret # Idle =>
        ret = IF call.err = NoError /\ ~emptyOutput
              THEN [exists |-> TRUE, err |-> NoError]
              ELSE IF saysNotFound
              THEN [exists |-> FALSE, err |-> NoError]
              ELSE [exists |-> FALSE, err |-> call.err]

\* C19 witness: a non-zero exit whose output says "NOT FOUND" in capitals.
C19_Witness ==
    /\ ret # Idle
    /\ call.err = ExitError
    /\ call.middle = <<"N", "O", "T", " ", "F", "O", "U", "N", "D">>
    /\ ret = [exists |-> FALSE, err |-> NoError]

(***************************************************************************)
(* SpecParse: one parse of a catalog source, the files in the order the    *)
(* walk (or the archive) hands them to addServiceYaml.                     *)
(***************************************************************************)
MaxFiles == 3

CatalogFiles ==
    {GoodFile(ServiceRedis), GoodFile(ServiceRedisV2), GoodFile(ServiceBare),
     TwoPartFile, BadTemplateFile}

ParsedSources == UNION {[1..n -> CatalogFiles] : n \in 0..MaxFiles}

InitParse ==
    /\ mainIdle
    /\ call \in [fn : {"parseAny"}, source : ParsedSources]
    /\ ret = Idle

ApplyParse ==
    /\ call.fn = "parseAny"
    /\ ret = Idle
    /\ ret' = parseAny(call.source)
    /\ UNCHANGED <<call, notPure>>

NextParse == ApplyParse

SpecParse == InitParse /\ [][NextParse]_vars

\* The files of the parsed source that define a service with this Id.
filesOf(id) == {i \in DOMAIN call.source : call.source[i].service.Id = id}

\* C20: when two files of one source define a service with the same Id, the
\* first wins: the snapshot of a parse holds, under that Id, the service of
\* the file parsed first.
C20_FirstServiceWins ==
    (ret # Idle /\ ret.err = NoError)
    => \A id \in DOMAIN ret.services :
          \E i \in filesOf(id) :
             /\ \A j \in filesOf(id) : i <= j
             /\ ret.services[id] = call.source[i].service

\* C20, as the code has it: the snapshot holds the service of the file
\* parsed last, and one service for every Id.
C20_LastServiceWins ==
    (ret # Idle /\ ret.err = NoError)
    => /\ DOMAIN ret.services =
             {call.source[i].service.Id : i \in DOMAIN call.source}
       /\ \A id \in DOMAIN ret.services :
             \E i \in filesOf(id) :
                /\ \A j \in filesOf(id) : j <= i
                /\ ret.services[id] = call.source[i].service

\* C20 witness: two files define service s1, the parse succeeds, and the
\* snapshot holds the second definition.
C20_Witness ==
    /\ ret # Idle
    /\ call.source = <<GoodFile(ServiceRedis), GoodFile(ServiceRedisV2)>>
    /\ ret.err = NoError
    /\ ret.services["s1"] = ServiceRedisV2
    /\ ret.services["s1"] # ServiceRedis

(***************************************************************************)
(* SpecFile: addServiceYaml on the text of one file. A text is a sequence  *)
(* of pieces: the separator "\n---", the marker "---" a file may start     *)
(* with (no newline before it), and pieces of content.                     *)
(***************************************************************************)
MaxParts == 4

Separator == "\n---"
Marker == "---"

\* bytes.Split(input, "\n---"): the pieces between the separators.
RECURSIVE SplitAtEveryMarker(_, _)
SplitAtEveryMarker(input, sep) ==
    IF input = <<>> THEN <<(<<>>)>>
    ELSE LET rest == SplitAtEveryMarker(Tail(input), sep)
         IN IF Head(input) \in {sep, Marker} THEN <<(<<>>)>> \o rest
            ELSE <<(<<Head(input)>> \o Head(rest))>> \o Tail(rest)

RECURSIVE Split(_, _)
Split(input, sep) ==
    IF input = <<>> THEN <<(<<>>)>>
    ELSE LET rest == Split(Tail(input), sep)
         IN IF Head(input) = sep THEN <<(<<>>)>> \o rest
            ELSE <<(<<Head(input)>> \o Head(rest))>> \o Tail(rest)

\* The zero Service: what an empty first document decodes to.
ZeroService ==
    [Id |-> "", Chart |-> "", ChartVersion |-> "", Plans |-> <<>>,
     valuesTemplate |-> ValuesTemplate(FALSE, EmptyMap),
     credentialsTemplate |-> CredentialsTemplate(EmptyMap, <<>>)]

\* Pieces of content: three service definitions, a text that is no YAML
\* mapping, a template text, a template with an unclosed action.
ServiceTexts ==
    ("service: s1" :> ServiceRedis) @@ ("service: s1 v2" :> ServiceRedisV2)
    @@ ("service: s2" :> ServiceBare)

Contents == DOMAIN ServiceTexts \cup {"- not a mapping", "key: value", "{{ bad"}

content(document) == SelectSeq(document, LAMBDA piece : piece # Marker)

\* yaml.Unmarshal(documents[0], &s)
unmarshalService(document) ==
    IF content(document) = <<>> THEN [ok |-> TRUE, service |-> ZeroService]
    ELSE IF content(document)[1] \in DOMAIN ServiceTexts
    THEN [ok |-> TRUE, service |-> ServiceTexts[content(document)[1]]]
    ELSE IF content(document)[1] = "key: value"
    THEN [ok |-> TRUE, service |-> ZeroService]
    ELSE [ok |-> FALSE, service |-> ZeroService]

\* template.New(...).Parse(document) succeeds
templateParses(document) == \A i \in DOMAIN document : document[i] # "{{ bad"

\* The file the parse model above works on, made from the text.
fileOf(input) ==
    LET documents == Split(input, Separator)
    IN File(Len(documents), unmarshalService(documents[1]).ok,
            Len(documents) < 2 \/ templateParses(documents[2]),
            Len(documents) < 3 \/ templateParses(documents[3]),
            unmarshalService(documents[1]).service)

\* Texts: an optional marker, then one piece of content (or none) per part,
\* the parts joined by the separator.
RECURSIVE joined(_)
joined(parts) ==
    IF Len(parts) = 1 THEN parts[1]
    ELSE parts[1] \o <<Separator>> \o joined(Tail(parts))

FileTexts ==
    {lead \o joined(parts) :
        lead \in {<<>>, <<Marker>>},
        parts \in UNION {[1..n -> {<<>>} \cup {<<c>> : c \in Contents}] :
                            n \in 1..MaxParts}}

InitFile ==
    /\ mainIdle
    /\ call \in [fn : {"addServiceYaml"},
                 services : {EmptyMap, ("s1" :> ServiceRedis)},
                 input : FileTexts]
    /\ ret = Idle

ApplyAddServiceYaml ==
    /\ call.fn = "addServiceYaml"
    /\ ret = Idle
    /\ ret' = addServiceYaml(call.services, fileOf(call.input))
    /\ UNCHANGED <<call, notPure>>

NextFile == ApplyAddServiceYaml

SpecFile == InitFile /\ [][NextFile]_vars

\* The number of parts of the text: one more than its separators.
partsOf(input) ==
    1 + Cardinality({i \in DOMAIN input : input[i] = Separator})

\* The piece of content of part n of a text with three parts, "" if none.
pieceAt(input, n) ==
    LET seps == {i \in DOMAIN input : input[i] = Separator}
        from == IF n = 1 THEN 0
                ELSE CHOOSE i \in seps :
                        Cardinality({j \in seps : j < i}) = n - 2
        inside == {i \in DOMAIN input :
                     /\ i > from
                     /\ input[i] \notin {Separator, Marker}
                     /\ \A j \in seps : j > from => i < j}
    IN IF inside = {} THEN "" ELSE input[CHOOSE i \in inside : TRUE]

\* C21: a file is accepted only if splitting it on "\n---" yields exactly
\* three parts; any other count is an error and adds nothing. An accepted
\* file adds exactly one Service, decoded from part 1, with its two
\* templates compiled from parts 2 and 3; a YAML or template failure adds
\* nothing.
C21_ThreePartsOrNothing ==
    ret # Idle =>
        LET n == partsOf(call.input)
            first == pieceAt(call.input, 1)
            decodes == first \in DOMAIN ServiceTexts \cup {"", "key: value"}
            compiles == /\ pieceAt(call.input, 2) # "{{ bad"
                        /\ pieceAt(call.input, 3) # "{{ bad"
            added == IF first \in DOMAIN ServiceTexts
                     THEN ServiceTexts[first] ELSE ZeroService
        IN /\ ret.err = NoError <=> (n = 3 /\ decodes /\ compiles)
           /\ ret.err # NoError => ret.services = call.services
           /\ ret.err = NoError
              => /\ DOMAIN ret.services = DOMAIN call.services \cup {added.Id}
                 /\ ret.services[added.Id] = added
                 /\ \A id \in DOMAIN call.services \ {added.Id} :
                       ret.services[id] = call.services[id]

\* C21 witness: a file that starts with the marker and has three parts is
\* accepted and its service stored.
C21_Witness ==
    /\ ret # Idle
    /\ Len(call.input) = 6
    /\ call.input[1] = Marker
    /\ call.input[2] = "service: s2"
    /\ call.services = ("s1" :> ServiceRedis)
    /\ ret.err = NoError
    /\ DOMAIN ret.services = {"s1", "s2"}

(***************************************************************************)
(* SpecChart: release.Install on a fresh name for every way a service and  *)
(* its plan can name a chart and a version, with the command line the      *)
(* adapter (helm.Install) makes of them.                                   *)
(***************************************************************************)
\* helm.Install: the arguments of the helm command.
installArguments(release, chart, version, hasValues, namespace, acceptsIncomplete) ==
    <<"install", chart, "--name", release>>
    \o (IF namespace # "" THEN <<"--namespace", namespace>> ELSE <<>>)
    \o (IF version # "" THEN <<"--version", version>> ELSE <<>>)
    \o (IF ~acceptsIncomplete THEN <<"--wait">> ELSE <<>>)
    \o (IF hasValues THEN <<"--values", "-">> ELSE <<>>)

\* A catalog of one service with one plan, naming these charts and versions.
chartCatalog(chart, version, planChart, planVersion) ==
    ("s1" :> [ServiceRedis EXCEPT
                 !.Chart = chart, !.ChartVersion = version,
                 !.Plans = <<[PlanSmall EXCEPT !.Chart = planChart,
                                               !.ChartVersion = planVersion]>>])

InitChart ==
    /\ mainIdle
    /\ call \in [fn : {"Install"}, chart : {"", "redis"},
                 version : {"", "1.0"}, planChart : {"", "redis-ha"},
                 planVersion : {"", "2.0"}, namespace : {"", "ns"},
                 acceptsIncomplete : BOOLEAN,
                 params : {"valid", "unusable"}, engine : {"ok", "down"}]
    /\ ret = Idle

ApplyInstall ==
    /\ call.fn = "Install"
    /\ ret = Idle
    /\ LET services == chartCatalog(call.chart, call.version, call.planChart,
                                    call.planVersion)
           service == CatalogService(services, "s1")
           plan == ServicePlan(service, "p1")
           namespace == [Name |-> call.namespace, IngressDomain |-> ""]
           version == getChartVersion(service, plan)
           r == ReleaseInstall(services, NoRelease, "s1", "p1", namespace,
                               call.acceptsIncomplete, call.params,
                               call.engine, 0)
       IN ret' = [chart |-> getChart(service, plan), version |-> version,
                  install |-> r,
                  arguments |->
                      IF ~r.called THEN <<>>
                      ELSE installArguments(
                              getName(<<"a">>), getChart(service, plan).chart,
                              IF version.err # NoError THEN ""
                              ELSE version.version,
                              TRUE, call.namespace, call.acceptsIncomplete)]
    /\ UNCHANGED <<call, notPure>>

NextChart == ApplyInstall

SpecChart == InitChart /\ [][NextChart]_vars

\* The argument after the option in a command line, Nil if the option is
\* not there.
optionOf(arguments, option) ==
    IF \E i \in 1..(Len(arguments) - 1) : arguments[i] = option
    THEN arguments[1 + CHOOSE i \in 1..(Len(arguments) - 1) :
                          arguments[i] = option]
    ELSE Nil

\* C22: chart resolution returns plan.Chart when non-empty, else
\* service.Chart when non-empty, else an error, and Install then fails
\* without calling the chart engine; version resolution is analogous except
\* that with both versions empty Install proceeds with an empty version,
\* which the adapter forwards by leaving --version out.
C22_ChartAndVersionResolution ==
    ret # Idle =>
        LET noChart == call.planChart = "" /\ call.chart = ""
            noVersion == call.planVersion = "" /\ call.version = ""
            chart == IF call.planChart # "" THEN call.planChart ELSE call.chart
            version == IF call.planVersion # "" THEN call.planVersion
                       ELSE call.version
        IN /\ ret.chart.err # NoError <=> noChart
           /\ ~noChart => ret.chart.chart = chart
           /\ ret.version.err # NoError <=> noVersion
           /\ ~noVersion => ret.version.version = version
           /\ noChart => /\ ret.install.err = ret.chart.err
                         /\ ~ret.install.called
                         /\ ret.install.rel = NoRelease
           /\ (~noChart /\ call.params = "valid")
              => /\ ret.install.called
                 /\ ret.arguments[2] = chart
                 /\ optionOf(ret.arguments, "--version") =
                       IF noVersion THEN Nil ELSE version
                 /\ (call.engine = "ok")
                    => /\ ret.install.err = NoError
                       /\ ret.install.rel.chart = chart
                       /\ ret.install.rel.version = version

\* C22 witness: neither the plan nor the service names a version; the
\* service's chart is installed, without --version.
C22_Witness ==
    /\ ret # Idle
    /\ call.planVersion = "" /\ call.version = ""
    /\ call.planChart = "" /\ call.chart = "redis"
    /\ call.engine = "ok"
    /\ ret.install.err = NoError
    /\ ret.install.called
    /\ ret.arguments[2] = "redis"
    /\ \A i \in DOMAIN ret.arguments : ret.arguments[i] # "--version"

(***************************************************************************)
(* SpecAddress: extractAddress on every list of nodes and setting of       *)
(* DOMAIN.                                                                 *)
(***************************************************************************)
AddressedNodes ==
    UNION {[1..n -> [ExternalIP : {"", "2.2.2.2", "4.4.4.4"},
                     InternalIP : {"", "1.1.1.1", "5.5.5.5"}]] :
              n \in 0..MaxNodes}

InitAddress ==
    /\ mainIdle
    /\ call \in [fn : {"extractAddress"}, nodes : AddressedNodes,
                 domainEnv : DomainEnvs]
    /\ ret = Idle

ApplyExtractAddress ==
    /\ call.fn = "extractAddress"
    /\ ret = Idle
    /\ ret' = [address |-> extractAddress(call.nodes, call.domainEnv)]
    /\ UNCHANGED <<call, notPure>>

NextAddress == ApplyExtractAddress

SpecAddress == InitAddress /\ [][NextAddress]_vars

\* The first non-empty text of a list, "" if there is none.
RECURSIVE firstNonEmpty(_)
firstNonEmpty(texts) ==
    IF texts = <<>> THEN ""
    ELSE IF Head(texts) # "" THEN Head(texts)
    ELSE firstNonEmpty(Tail(texts))

\* C23: the cluster address is the value of DOMAIN when it is set, even when
\* empty; otherwise the ExternalIP of the first node that has one; otherwise
\* the InternalIP of the first node that has one; otherwise empty. So the
\* ExternalIP of a later node goes before the InternalIP of an earlier one.
C23_ClusterAddress ==
    ret # Idle =>
        LET external == [i \in DOMAIN call.nodes |-> call.nodes[i].ExternalIP]
            internal == [i \in DOMAIN call.nodes |-> call.nodes[i].InternalIP]
        IN /\ ret.address =
                 IF call.domainEnv.set THEN call.domainEnv.text
                 ELSE IF firstNonEmpty(external) # ""
                 THEN firstNonEmpty(external)
                 ELSE firstNonEmpty(internal)
           /\ (~call.domainEnv.set /\ Len(call.nodes) >= 2
                  /\ call.nodes[1].ExternalIP = ""
                  /\ call.nodes[1].InternalIP # ""
                  /\ call.nodes[2].ExternalIP # "")
              => ret.address = call.nodes[2].ExternalIP

\* C23 witness: the first node has only an internal address, the second an
\* external one, DOMAIN is not set: the second node's address is returned.
C23_Witness ==
    /\ ret # Idle
    /\ ~call.domainEnv.set
    /\ Len(call.nodes) >= 2
    /\ call.nodes[1] = [ExternalIP |-> "", InternalIP |-> "1.1.1.1"]
    /\ call.nodes[2].ExternalIP = "4.4.4.4"
    /\ ret.address = "4.4.4.4"

(***************************************************************************)
(* Instance isolation in the broker model (Spec).                          *)
(***************************************************************************)
\* C24: for distinct instance ids A and B, Deprovision(A) never deletes the
\* release installed by Provision(B), and Provision(A) never fails with
\* "instance already exists" because of B's release. Stated on two calls in
\* a row: after a successful Provision(B), a Deprovision that removes the
\* release and a Provision that meets it are calls for B.
C24_InstanceIsolation ==
    [][(last.op = "Provision" /\ last.res = "ok"
           /\ helm[getName(last.id)] # NoRelease)
       => /\ (last'.op = "Deprovision"
                 /\ helm'[getName(last.id)] = NoRelease)
             => last'.id = last.id
          /\ (last'.op = "Provision"
                 /\ last'.res = ErrInstanceAlreadyExists
                 /\ getName(last'.id) = getName(last.id))
             => last'.id = last.id]_vars

\* C24 witness: both instance ids of the model have been used, and they
\* are served by one release name.
C24_Witness ==
    /\ last.op = "Deprovision"
    /\ last.res = "ok"
    /\ releaseOf(last) = NoRelease
    /\ \E other \in InstanceIds :
          other # last.id /\ getName(other) = getName(last.id)

\* C25: "failed" is terminal: once LastOperation has returned "failed" for
\* an instance, every later LastOperation for the same release, with no
\* Provision or Deprovision in between, returns "failed" too, whatever the
\* engine and the probes report by then. Stated on two calls in a row.
C25_FailedIsTerminal ==
    [][(last.op = "LastOperation" /\ last.res = "ok"
           /\ last.out.state = "failed"
           /\ last'.op = "LastOperation" /\ last'.id = last.id
           /\ last'.res = "ok")
       => last'.out.state = "failed"]_vars

\* C25 witness: LastOperation reports "succeeded" for a release deployed
\* longer ago than the timeout, for which a call with a failing probe at
\* the same time reports "failed".
C25_Witness ==
    /\ last.op = "LastOperation"
    /\ last.res = "ok"
    /\ last.out.state = "succeeded"
    /\ Len(last.out.probed) > 0
    /\ now > releaseOf(last).DeploymentTime + DefaultTimeout
    /\ LastOperationCall(catalog, releaseOf(last), last.id, "none",
                         [u \in HealthUrls |-> FALSE], now).out.state
       = "failed"

\* C26: Provision with a service id that is not in the current snapshot, or
\* a plan id that is not a plan of that service, ends in an error result
\* returned to the caller and installs nothing; the request does not crash
\* on the missing service or plan.
C26_UnknownServiceOrPlan ==
    [][last'.op = "Provision"
       => \A i \in ProvisionInputs :
             (/\ \/ CatalogService(catalog, i.details.ServiceID) = Nil
                 \/ ServicePlan(CatalogService(catalog, i.details.ServiceID),
                                i.details.PlanID) = Nil
              /\ Provision(last'.id, i.details, i.params, i.found,
                           i.asyncAllowed, i.engine))
             => /\ last'.res \notin {"ok", Panic}
                /\ ~last'.out.called
                /\ helm' = helm]_vars

\* C26 witness: a Provision ended in the dereference of a missing service
\* or plan, after the catalog was read and before any install.
C26_Witness ==
    /\ last.op = "Provision"
    /\ last.res = Panic
    /\ ~last.out.called
    /\ last.reads = {"catalog"}

\* The service and plan ids a release carries in its __metadata.
recordedServiceId(rel) == rel.values[metadataKey].m[metadataServiceIdKey].s
recordedPlanId(rel) == rel.values[metadataKey].m[metadataPlanIdKey].s

\* The snapshot no longer has the service or the plan of the release.
orphaned(rel) ==
    \/ recordedServiceId(rel) \notin DOMAIN catalog
    \/ \A i \in DOMAIN catalog[recordedServiceId(rel)].Plans :
          ~EqualFold(catalog[recordedServiceId(rel)].Plans[i].Id,
                     recordedPlanId(rel))

\* C27: when a refresh has published a snapshot without the service or plan
\* recorded in the __metadata of an available release, a later LastOperation
\* on that release returns an error result or a state; it does not
\* dereference the missing service or plan.
C27_RefreshedAwayServiceOrPlan ==
    (last.op = "LastOperation" /\ availableRelease(releaseOf(last))
        /\ orphaned(releaseOf(last)))
    => last.res # Panic

\* C27 witness: LastOperation on an available release whose plan the
\* refreshed snapshot no longer has, with every collaborator answering.
C27_Witness ==
    /\ last.op = "LastOperation"
    /\ availableRelease(releaseOf(last))
    /\ recordedServiceId(releaseOf(last)) \in DOMAIN catalog
    /\ orphaned(releaseOf(last))
    /\ last.reads = {"values", "catalog", "nodes"}
    /\ last.res = Panic

\* C28: in every Health that GetHealth returns without error, IsReady
\* implies not IsFailed, so LastOperation never reports "failed" for a
\* Health whose IsReady is true.
C28_ReadyIsNotFailed ==
    (last.op = "LastOperation" /\ last.res = "ok"
        /\ last.out.health.IsReady)
    => /\ ~last.out.health.IsFailed
       /\ ~releaseOf(last).IsFailed
       /\ last.out.state = "succeeded"

\* C28 witness: a ready Health past the timeout, reported as "succeeded".
C28_Witness ==
    /\ last.op = "LastOperation"
    /\ last.res = "ok"
    /\ last.out.health.IsReady
    /\ ~last.out.health.IsFailed
    /\ now > last.out.health.deploymentTime + DefaultTimeout
    /\ last.out.state = "succeeded"

\* C29: only Provision and Deprovision change the engine's set of releases:
\* Services, Bind, Unbind, LastOperation and Update never install or delete
\* a release, whatever their outcome; Update always returns "plan change
\* not supported".
C29_OnlyProvisionAndDeprovisionChangeReleases ==
    [][/\ last'.op \in {"Services", "Bind", "Unbind", "LastOperation",
                        "Update"}
          => helm' = helm
       /\ {n \in Names : helm[n] = NoRelease}
             # {n \in Names : helm'[n] = NoRelease}
          => last'.op \in {"Provision", "Deprovision"}
       /\ last'.op = "Update" => last'.res = ErrPlanChangeNotSupported]_vars

\* C29 witness: an Unbind that succeeded, the release still there.
C29_Witness ==
    /\ last.op = "Unbind"
    /\ last.res = "ok"
    /\ last.exists = Found
    /\ releaseOf(last) # NoRelease

(***************************************************************************)
(* SpecRefresh: the refresh goroutine alone with the source being edited   *)
(* under it. The goroutine is a loop without exit whose steps all return,  *)
(* so a step of it that can be taken is taken in the end.                  *)
(***************************************************************************)
Refresher ==
    \/ RefreshWake
    \/ \E err \in {NoError, ExitError} : RefreshRepoUpdate(err)
    \/ ParseStart
    \/ ParseFile
    \/ ParseEnd
    \/ RefreshPublish

NextRefresh ==
    \/ \E source \in Sources : EditSource(source)
    \/ RefreshWake
    \/ \E err \in {NoError, ExitError} : RefreshRepoUpdate(err)
    \/ ParseStart
    \/ ParseFile
    \/ ParseEnd
    \/ RefreshPublish

SpecRefresh == InitCatalog /\ [][NextRefresh]_vars /\ WF_vars(Refresher)

\* C30: a failed tick never stops the refresher: the loop keeps ticking
\* after ticks whose repo update or re-parse failed; a failed repo update
\* does not keep the same tick from re-parsing; and if from some point on
\* the source stays one that parses, the active snapshot becomes what that
\* source parses to, and stays so.
C30_RefresherNeverStops ==
    /\ []<>(rf.pc = "update")
    /\ (rf.pc = "parse" /\ rf.repoErr # NoError)
          ~> (rf.pc = "parsed" /\ rf.repoErr # NoError)
    /\ (rf.pc = "sleep" /\ rf.outcome = "kept") ~> (rf.pc = "parsed")
    /\ \A source \in {s \in Sources : parses(s)} :
          <>[](src = source) => <>[](heap[active] = servicesOf(source))

\* C30 witness: a tick whose repo update failed has parsed the source, a
\* different one from the active snapshot's, without error.
C30_Witness ==
    /\ rf.pc = "parsed"
    /\ rf.repoErr # NoError
    /\ rf.err = NoError
    /\ src = rf.edition
    /\ parses(src)
    /\ heap[rf.obj] = servicesOf(src)
    /\ heap[active] # servicesOf(src)

====
